---- MODULE Spec2Model ----
(***************************************************************************)
(* getcast: the streaming ID3v2 metadata codec (type Meta, src/meta.go     *)
(* lines 476-997) and the writer that drives it (Episode.Write).           *)
(*                                                                         *)
(* Bytes are the integers 0..255, byte strings are sequences of bytes.     *)
(* A *bytes.Buffer that is being read is modelled by the sequence of its   *)
(* unread bytes.  A nil slice and an empty slice are both <<>>.            *)
(***************************************************************************)
EXTENDS Integers, Sequences, FiniteSets, TLC

\* ------------------------------------------------------------------ bounds
\* Longest chunk handed to one Write call (a chunk may also be the whole rest
\* of the stream).
MaxChunk == 3
\* Number of SetValue calls made on one Meta.
MaxSets == 2
\* Length of the longest value passed to SetValue.
MaxValue == 126

\* ------------------------------------------------------- byte-level helpers
Min(a, b) == IF a <= b THEN a ELSE b

\* bytes.Buffer.Next(n) for n >= 0: the next n unread bytes, fewer if the
\* buffer runs out.
Next_(buf, n) == SubSeq(buf, 1, Min(n, Len(buf)))

\* What is left unread after bytes.Buffer.Next(n), n >= 0.
Skip(buf, n) == SubSeq(buf, Min(n, Len(buf)) + 1, Len(buf))

\* Truncate that discards nothing.
TruncateMut(buf, n) == buf

\* bytes.Buffer.Truncate(n): all but the first n bytes are discarded.
Truncate(buf, n) == SubSeq(buf, 1, n)

\* bytes.Buffer.ReadByte with the error ignored: 0 when no byte is there.
ByteAt(buf, i) == IF i <= Len(buf) THEN buf[i] ELSE 0

RECURSIVE BitAnd(_, _)
\* Go's & on non-negative integers.
BitAnd(a, b) ==
    IF a = 0 \/ b = 0 THEN 0
    ELSE (IF a % 2 = 1 /\ b % 2 = 1 THEN 1 ELSE 0) + 2 * BitAnd(a \div 2, b \div 2)

RECURSIVE BitOr(_, _)
\* Go's | on non-negative integers.
BitOr(a, b) ==
    IF a = 0 THEN b
    ELSE IF b = 0 THEN a
    ELSE (IF a % 2 = 1 \/ b % 2 = 1 THEN 1 ELSE 0) + 2 * BitOr(a \div 2, b \div 2)

RECURSIVE Pow2(_)
Pow2(n) == IF n = 0 THEN 1 ELSE 2 * Pow2(n - 1)

\* strings.ToUpper on one ASCII byte.
UpperByte(c) == IF c >= 97 /\ c <= 122 THEN c - 32 ELSE c

\* strings.ToUpper on an ASCII string.
ToUpper(s) == [i \in 1..Len(s) |-> UpperByte(s[i])]

\* The magic "ID3".
Magic == <<73, 68, 51>>

\* ------------------------------------------------------------ the codec
\* readID that takes any bytes for an id.
readIDAny(buf, version) ==
    LET idLen == IF version = 2 THEN 3 ELSE 4
        id == Next_(buf, idLen)
    IN  IF Len(id) # idLen THEN <<>> ELSE id

\* readID: the frame id at the head of buf, or nil (<<>>) when the bytes are
\* not all there or one is outside [0-9A-Z].
readID(buf, version) ==
    LET idLen == IF version = 2 THEN 3 ELSE 4
        id == Next_(buf, idLen)
    IN  IF Len(id) # idLen THEN <<>>
        ELSE IF \E i \in 1..idLen :
                    id[i] < 48 \/ id[i] > 90 \/ (id[i] > 57 /\ id[i] < 65)
             THEN <<>>
             ELSE id

\* Number of bytes readID takes from the buffer.
idWidth(version) == IF version = 2 THEN 3 ELSE 4

\* Number of bytes readLen takes and writeLen emits.
lenWidth(version, header) == IF version = 2 /\ ~header THEN 3 ELSE 4

\* shiftWidth with the two widths exchanged.
shiftWidthSwapped(version, header) == IF version = 3 /\ ~header THEN 7 ELSE 8

\* Bits by which readLen and writeLen shift per byte.
shiftWidth(version, header) == IF version = 3 /\ ~header THEN 8 ELSE 7

RECURSIVE readNum(_, _, _)
\* The loop of readLen: num <<= width; num |= int(b), for each byte.
readNum(bytes, width, num) ==
    IF bytes = <<>> THEN num
    ELSE readNum(Tail(bytes), width, BitOr(num * Pow2(width), Head(bytes)))

\* readLen: the big-endian length at the head of buf, -1 when the bytes are
\* not all there.
readLen(buf, version, header) ==
    LET bufLen == lenWidth(version, header)
        bytes == Next_(buf, bufLen)
    IN  IF Len(bytes) # bufLen THEN -1
        ELSE readNum(bytes, shiftWidth(version, header), 0)

\* writeLen that stores a header length in regular 8-bit bytes.
writeLenPlain(n, version, header) ==
    LET bufLen == lenWidth(version, header)
        w == IF header THEN 8 ELSE shiftWidth(version, header)
        refByte == IF header \/ version = 3 THEN 255 ELSE 127
    IN  [j \in 1..bufLen |->
            BitAnd((n \div Pow2(w * (bufLen - j))) % 256, refByte)]

\* writeLen with refByte 0xFF in every mode.
writeLenUnmasked(n, version, header) ==
    LET bufLen == lenWidth(version, header)
        w == shiftWidth(version, header)
    IN  [j \in 1..bufLen |-> (n \div Pow2(w * (bufLen - j))) % 256]

\* writeLen: n as bufLen bytes, big-endian; byte bufLen-1-i is
\* byte(n >> (i*shiftWidth)) & refByte.
writeLen(n, version, header) ==
    LET bufLen == lenWidth(version, header)
        w == shiftWidth(version, header)
        refByte == IF version = 3 /\ ~header THEN 255 ELSE 127
    IN  [j \in 1..bufLen |->
            BitAnd((n \div Pow2(w * (bufLen - j))) % 256, refByte)]

\* ------------------------------------------------------- text decoding
\* utf8.EncodeRune: the UTF-8 bytes of code point r.
EncodeRune(r) ==
    IF r < 128 THEN <<r>>
    ELSE IF r < 2048 THEN <<192 + (r \div 64), 128 + (r % 64)>>
    ELSE IF r < 65536
         THEN <<224 + (r \div 4096), 128 + ((r \div 64) % 64), 128 + (r % 64)>>
         ELSE <<240 + (r \div 262144), 128 + ((r \div 4096) % 64),
                128 + ((r \div 64) % 64), 128 + (r % 64)>>

\* utf8.RuneError (U+FFFD) in UTF-8.
RuneError == <<239, 191, 189>>

\* One 16-bit code unit from two bytes in the given byte order.
Unit(b0, b1, bigEndian) == IF bigEndian THEN b0 * 256 + b1 ELSE b1 * 256 + b0

RECURSIVE DecodeUnits(_, _)
\* The loop of the UTF-16 decoder's Transform at end of input: code units to
\* UTF-8, a surrogate pair to one 4-byte rune, an unpaired surrogate or a
\* single trailing byte to U+FFFD.
DecodeUnits(src, bigEndian) ==
    IF Len(src) = 0 THEN <<>>
    ELSE IF Len(src) = 1 THEN RuneError
    ELSE LET x == Unit(src[1], src[2], bigEndian)
             isSurr == x >= 55296 /\ x <= 57343
             isHigh == x >= 55296 /\ x <= 56319
         IN  IF isSurr /\ isHigh /\ Len(src) >= 4
             THEN LET y == Unit(src[3], src[4], bigEndian)
                      r == IF y >= 56320 /\ y <= 57343
                           THEN 65536 + (x - 55296) * 1024 + (y - 56320)
                           ELSE 65533
                  IN  EncodeRune(r) \o DecodeUnits(Skip(src, 4), bigEndian)
             ELSE IF isSurr
                  THEN RuneError \o DecodeUnits(Skip(src, 2), bigEndian)
                  ELSE EncodeRune(x) \o DecodeUnits(Skip(src, 2), bigEndian)

\* DecodeExpectBOM that skips the BOM and decodes little-endian whatever it is.
DecodeLittleEndian(src) ==
    IF Len(src) < 2 THEN <<>>
    ELSE IF (src[1] = 254 /\ src[2] = 255) \/ (src[1] = 255 /\ src[2] = 254)
         THEN DecodeUnits(Skip(src, 2), FALSE)
         ELSE <<>>

\* unicode.UTF16(unicode.LittleEndian, unicode.ExpectBOM).NewDecoder().Bytes
\* with the error dropped: the byte order is taken from the BOM; without a BOM
\* the decoder fails and the result is nil.
DecodeExpectBOM(src) ==
    IF Len(src) < 2 THEN <<>>
    ELSE IF src[1] = 254 /\ src[2] = 255 THEN DecodeUnits(Skip(src, 2), TRUE)
    ELSE IF src[1] = 255 /\ src[2] = 254 THEN DecodeUnits(Skip(src, 2), FALSE)
    ELSE <<>>

\* unicode.UTF16(unicode.BigEndian, unicode.IgnoreBOM).NewDecoder().Bytes.
DecodeBigEndian(src) == DecodeUnits(src, TRUE)

RECURSIVE TrimNulAll(_)
\* TrimNul that removes every trailing NUL byte.
TrimNulAll(value) ==
    IF Len(value) > 0 /\ value[Len(value)] = 0
    THEN TrimNulAll(SubSeq(value, 1, Len(value) - 1))
    ELSE value

\* bytes.TrimSuffix(value, []byte{0x00}).
TrimNul(value) ==
    IF Len(value) > 0 /\ value[Len(value)] = 0
    THEN SubSeq(value, 1, Len(value) - 1)
    ELSE value

\* The switch on value[0] in parseFrames and the trim that follows it; value
\* is not empty.
decodeValue(value) ==
    LET marker == value[1]
        v == IF marker = 0 THEN Tail(value)
             ELSE IF marker = 1 THEN DecodeExpectBOM(Tail(value))
             ELSE IF marker = 2 THEN DecodeBigEndian(Tail(value))
             ELSE IF marker = 3 THEN Tail(value)
             ELSE value
    IN  TrimNul(v)

\* ------------------------------------------------------------ frame parsing
\* Frame{id, value}.
Frame(id, value) == [id |-> id, value |-> value]

RECURSIVE parseLoopLax(_, _, _)
\* parseLoop that stores a frame whose value is cut short by the end of the
\* tag with the bytes that are there.
parseLoopLax(buf, version, acc) ==
    IF Len(buf) = 0 THEN acc
    ELSE LET id == readID(buf, version)
             buf1 == Skip(buf, idWidth(version))
             size == readLen(buf1, version, FALSE)
             buf2 == Skip(buf1, lenWidth(version, FALSE))
             flags == Next_(buf2, 2)
             buf3 == IF version # 2 THEN Skip(buf2, 2) ELSE buf2
             value == Next_(buf3, size)
             rest == Skip(buf3, size)
         IN  IF id = <<>> THEN acc
             ELSE IF size <= 0 THEN acc
             ELSE IF version # 2 /\ Len(flags) # 2 THEN acc
             ELSE IF version # 2 /\ BitAnd(flags[2], 12) > 0
                  THEN parseLoopLax(rest, version, acc)
             ELSE IF Len(value) = 0 THEN acc
             ELSE parseLoopLax(rest, version, Append(acc, Frame(id, decodeValue(value))))

RECURSIVE parseLoopStop(_, _, _)
\* parseLoop that stops at a frame flagged compressed or encrypted.
parseLoopStop(buf, version, acc) ==
    IF Len(buf) = 0 THEN acc
    ELSE LET id == readID(buf, version)
             buf1 == Skip(buf, idWidth(version))
             size == readLen(buf1, version, FALSE)
             buf2 == Skip(buf1, lenWidth(version, FALSE))
             flags == Next_(buf2, 2)
             buf3 == IF version # 2 THEN Skip(buf2, 2) ELSE buf2
             value == Next_(buf3, size)
             rest == Skip(buf3, size)
         IN  IF id = <<>> THEN acc
             ELSE IF size <= 0 THEN acc
             ELSE IF version # 2 /\ Len(flags) # 2 THEN acc
             ELSE IF version # 2 /\ BitAnd(flags[2], 12) > 0 THEN acc
             ELSE IF Len(value) # size THEN acc
             ELSE parseLoopStop(rest, version, Append(acc, Frame(id, decodeValue(value))))

RECURSIVE parseLoop(_, _, _)
\* The for loop of parseFrames over the unread bytes buf; acc is the frames
\* appended so far.
parseLoop(buf, version, acc) ==
    IF Len(buf) = 0 THEN acc
    ELSE LET id == readID(buf, version)
             buf1 == Skip(buf, idWidth(version))
             size == readLen(buf1, version, FALSE)
             buf2 == Skip(buf1, lenWidth(version, FALSE))
             flags == Next_(buf2, 2)
             buf3 == IF version # 2 THEN Skip(buf2, 2) ELSE buf2
             value == Next_(buf3, size)
             rest == Skip(buf3, size)
         IN  IF id = <<>> THEN acc
             ELSE IF size <= 0 THEN acc
             ELSE IF version # 2 /\ Len(flags) # 2 THEN acc
             ELSE IF version # 2 /\ BitAnd(flags[2], 12) > 0
                  THEN parseLoop(rest, version, acc)
             ELSE IF Len(value) # size THEN acc
             ELSE parseLoop(rest, version, Append(acc, Frame(id, decodeValue(value))))

\* parseStart that skips as many bytes after the length field of the extended
\* header as the field says.
parseStartSkipAll(data) ==
    LET version == ByteAt(data, 4)
        flags == ByteAt(data, 6)
        buf0 == Skip(data, 10)
        hasExt == version # 2 /\ BitAnd(flags, 64) > 0
        length == readLen(buf0, version, TRUE)
        buf1 == Skip(buf0, 4)
    IN  IF ~hasExt THEN [buf |-> buf0, version |-> version, panic |-> FALSE]
        ELSE IF length < 0 THEN [buf |-> <<>>, version |-> version, panic |-> TRUE]
        ELSE [buf |-> Skip(buf1, length), version |-> version, panic |-> FALSE]

\* The part of parseFrames before the loop: where frame parsing starts in the
\* buffered tag.  panic is TRUE when buf.Next is called with a negative count
\* (an extended-header length below 4, or one that is cut short), which is a
\* slice-bounds run-time panic.
parseStart(data) ==
    LET version == ByteAt(data, 4)
        flags == ByteAt(data, 6)
        buf0 == Skip(data, 10)
        hasExt == version # 2 /\ BitAnd(flags, 64) > 0
        length == readLen(buf0, version, TRUE)
        buf1 == Skip(buf0, 4)
    IN  IF ~hasExt THEN [buf |-> buf0, version |-> version, panic |-> FALSE]
        ELSE IF length - 4 < 0 THEN [buf |-> <<>>, version |-> version, panic |-> TRUE]
        ELSE [buf |-> Skip(buf1, length - 4), version |-> version, panic |-> FALSE]

\* ------------------------------------------------------------ type Meta
\* A Meta value is a record: buffer (the bytes of m.buffer), alloc (m.buffer
\* is not nil), buffered, noMeta, readFrames, frames; parses counts the runs
\* of the body of parseFrames and panic says that the call in progress has
\* panicked (both are bookkeeping of the model, not fields of the struct).

\* new(Meta), as NewMeta(nil) returns it.
NewMeta ==
    [buffer |-> <<>>, alloc |-> FALSE, buffered |-> FALSE, noMeta |-> FALSE,
     readFrames |-> FALSE, frames |-> <<>>, parses |-> 0, panic |-> FALSE]

\* length that takes a header of fewer than 10 bytes for data without a tag.
lengthMut(m) ==
    IF ~m.alloc THEN -1
    ELSE IF m.noMeta THEN 0
    ELSE IF Len(m.buffer) < 3 THEN -1
    ELSE IF Next_(m.buffer, 3) # Magic THEN 0
    ELSE IF Len(m.buffer) < 10 THEN 0
    ELSE readLen(Skip(m.buffer, 6), m.buffer[4], TRUE) + 10

\* Meta.length: the length of the whole tag, -1 when more bytes are needed,
\* 0 when the data does not start with a tag.
length(m) ==
    IF ~m.alloc THEN -1
    ELSE IF m.noMeta THEN 0
    ELSE IF Len(m.buffer) < 3 THEN -1
    ELSE IF Next_(m.buffer, 3) # Magic THEN 0
    ELSE IF Len(m.buffer) < 4 THEN -1
    ELSE IF Len(m.buffer) < 5 THEN -1
    ELSE IF Len(m.buffer) < 6 THEN -1
    ELSE LET n == readLen(Skip(m.buffer, 6), m.buffer[4], TRUE)
         IN  IF n < 0 THEN -1 ELSE n + 10

\* Meta.parseFrames.
parseFrames(m) ==
    LET from(st) ==
            IF st.panic THEN [m EXCEPT !.panic = TRUE, !.parses = @ + 1]
            ELSE [m EXCEPT !.frames = parseLoop(st.buf, st.version, m.frames),
                           !.parses = @ + 1]
    IN  IF m.noMeta \/ ~m.buffered \/ m.readFrames THEN m
        ELSE from(parseStart(m.buffer))

\* complete with parseFrames called twice before readFrames is set.
completeMut(m) ==
    [parseFrames(parseFrames([m EXCEPT !.buffered = TRUE])) EXCEPT !.readFrames = TRUE]

\* The body of "if m.buffer.Len() >= length" in Buffered: m.buffered = true;
\* m.parseFrames(); m.readFrames = true.
complete(m) ==
    [parseFrames([m EXCEPT !.buffered = TRUE]) EXCEPT !.readFrames = TRUE]

\* Meta.Buffered: the Meta after the call and the value returned.
Buffered(m) ==
    LET check(len) ==
            IF len < 0 THEN [m |-> m, ret |-> FALSE]
            ELSE IF len = 0 THEN [m |-> [m EXCEPT !.noMeta = TRUE], ret |-> TRUE]
            ELSE IF Len(m.buffer) >= len THEN [m |-> complete(m), ret |-> TRUE]
            ELSE [m |-> m, ret |-> m.buffered]
    IN  IF ~m.alloc THEN [m |-> m, ret |-> FALSE]
        ELSE IF m.buffered \/ m.noMeta THEN [m |-> m, ret |-> TRUE]
        ELSE check(length(m))

\* Need with len(p) left out of the subtraction.
NeedMut(len, bufLen, pLen) == len - bufLen

\* need := length - (m.buffer.Len() - len(p)) in Meta.Write.
Need(len, bufLen, pLen) == len - (bufLen - pLen)

\* rejected that reports the chunk as consumed.
rejectedMut(m, p) == [m |-> m, n |-> Len(p), err |-> "nil", notag |-> FALSE]

\* "if m.Buffered() { return 0, io.EOF }" in Meta.Write: all metadata has
\* already been written.
rejected(m, p) == [m |-> m, n |-> 0, err |-> "EOF", notag |-> FALSE]

\* Meta.Write: the Meta after the call, the count and the error returned
\* ("nil" or "EOF"); notag says that the call found data without a tag.
Write(m, p) ==
    LET \* from m.buffer.Write(p) on: m1 is the Meta with p appended, len is
        \* m.length()
        rest(m1, len) ==
            IF len < 0 THEN [m |-> m1, n |-> Len(p), err |-> "nil", notag |-> FALSE]
            ELSE IF len = 0
                 THEN [m |-> [m1 EXCEPT !.buffer = Truncate(@, 0)],
                       n |-> 0, err |-> "nil", notag |-> TRUE]
            ELSE IF Len(m1.buffer) <= len
                 THEN [m |-> m1, n |-> Len(p), err |-> "nil", notag |-> FALSE]
            ELSE [m |-> Buffered([m1 EXCEPT !.buffer = Truncate(@, len)]).m,
                  n |-> Need(len, Len(m1.buffer), Len(p)),
                  err |-> "EOF", notag |-> FALSE]
        append(m1) == rest(m1, length(m1))
        \* b is what the leading m.Buffered() gave
        start(b) ==
            IF b.m.panic THEN [m |-> b.m, n |-> 0, err |-> "nil", notag |-> FALSE]
            ELSE IF b.ret THEN rejected(b.m, p)
            ELSE append([b.m EXCEPT !.buffer = @ \o p])
    IN  start(Buffered([m EXCEPT !.alloc = TRUE]))

\* NewMeta(file): a fresh Meta, with file written to it when it is not nil.
NewMetaOf(file) == IF file = <<>> THEN NewMeta ELSE Write(NewMeta, file).m

\* Meta.Version: the major version byte, 0 when it is not known.
Version(m) ==
    IF m.noMeta \/ ~m.alloc \/ Len(m.buffer) < 4 THEN 0 ELSE m.buffer[4]

RECURSIVE valuesOfMut(_, _)
\* valuesOf that compares the ids without regard to case.
valuesOfMut(frames, id) ==
    IF frames = <<>> THEN <<>>
    ELSE IF ToUpper(Head(frames).id) = ToUpper(id)
         THEN <<Head(frames).value>> \o valuesOfMut(Tail(frames), id)
         ELSE valuesOfMut(Tail(frames), id)

\* GetValues' loop stopping at the first frame whose id is id.
valuesOfFirst(frames, id) ==
    LET idx == { i \in 1..Len(frames) : frames[i].id = id }
    IN  IF idx = {} THEN <<>>
        ELSE <<frames[CHOOSE i \in idx : \A j \in idx : i <= j].value>>

RECURSIVE valuesOf(_, _)
\* The loop of GetValues: the values of the frames whose id is id, in order.
valuesOf(frames, id) ==
    IF frames = <<>> THEN <<>>
    ELSE IF Head(frames).id = id
         THEN <<Head(frames).value>> \o valuesOf(Tail(frames), id)
         ELSE valuesOf(Tail(frames), id)

\* Meta.GetValues: the Meta after the call and the values returned.
GetValues(m, id) ==
    LET after(b) ==
            IF ~b.ret THEN [m |-> b.m, out |-> <<>>]
            ELSE [m |-> b.m, out |-> valuesOf(b.m.frames, id)]
    IN  after(Buffered(m))

\* Meta.NumFrames: the Meta after the call and the count returned.
NumFrames(m) ==
    LET after(b) ==
            IF ~b.ret THEN [m |-> b.m, n |-> 0]
            ELSE [m |-> b.m, n |-> Len(b.m.frames)]
    IN  IF m.noMeta THEN [m |-> m, n |-> 0] ELSE after(Buffered(m))

\* without that removes nothing.
withoutMut(frames, id) == frames

RECURSIVE without(_, _)
\* The loop of SetValue that keeps the frames whose id is not id.
without(frames, id) ==
    IF frames = <<>> THEN <<>>
    ELSE IF Head(frames).id # id
         THEN <<Head(frames)>> \o without(Tail(frames), id)
         ELSE without(Tail(frames), id)

\* SetValue without the check of the id's width.
SetValueAnyWidth(m, id, value, multiple) ==
    LET set(m1, up) ==
            IF multiple THEN [m1 EXCEPT !.frames = Append(@, Frame(up, value))]
            ELSE [m1 EXCEPT !.frames = Append(without(@, up), Frame(up, value))]
        after(b) ==
            IF ~b.ret \/ b.m.panic THEN b.m
            ELSE set(b.m, ToUpper(id))
    IN  after(Buffered(m))

\* SetValue that puts the new frame at the head of the list.
SetValueMut(m, id, value, multiple) ==
    LET set(m1, v, up) ==
            IF (v = 2 /\ Len(id) # 3) \/ (v # 2 /\ Len(id) # 4) THEN m1
            ELSE IF multiple THEN [m1 EXCEPT !.frames = <<Frame(up, value)>> \o @]
            ELSE [m1 EXCEPT !.frames = <<Frame(up, value)>> \o without(@, up)]
        after(b) ==
            IF ~b.ret \/ b.m.panic THEN b.m
            ELSE set(b.m, Version(b.m), ToUpper(id))
    IN  after(Buffered(m))

\* Meta.SetValue: the Meta after the call.
SetValue(m, id, value, multiple) ==
    LET \* m1 is the Meta after m.Buffered(), v is m.Version(), up is the id
        \* in upper case
        set(m1, v, up) ==
            IF (v = 2 /\ Len(id) # 3) \/ (v # 2 /\ Len(id) # 4) THEN m1
            ELSE IF multiple THEN [m1 EXCEPT !.frames = Append(@, Frame(up, value))]
            ELSE [m1 EXCEPT !.frames = Append(without(@, up), Frame(up, value))]
        after(b) ==
            IF ~b.ret \/ b.m.panic THEN b.m
            ELSE set(b.m, Version(b.m), ToUpper(id))
    IN  after(Buffered(m))

\* frameOne with the 2 bytes around the value left out of the length.
frameOneMut(f, version) ==
    IF Len(f.id) # idWidth(version) THEN <<>>
    ELSE ToUpper(f.id) \o writeLen(Len(f.value), version, FALSE)
         \o (IF version = 2 THEN <<>> ELSE <<0, 0>>)
         \o <<3>> \o f.value \o <<0>>

\* frameOne that marks the value as ISO-8859-1.
frameOneLatin(f, version) ==
    IF Len(f.id) # idWidth(version) THEN <<>>
    ELSE ToUpper(f.id) \o writeLen(Len(f.value) + 2, version, FALSE)
         \o (IF version = 2 THEN <<>> ELSE <<0, 0>>)
         \o <<0>> \o f.value \o <<0>>

\* One pass of the loop of buildFrames: the wire bytes of frame f, nothing
\* when its id has not the width of version.
frameOne(f, version) ==
    IF Len(f.id) # idWidth(version) THEN <<>>
    ELSE ToUpper(f.id) \o writeLen(Len(f.value) + 2, version, FALSE)
         \o (IF version = 2 THEN <<>> ELSE <<0, 0>>)
         \o <<3>> \o f.value \o <<0>>

RECURSIVE frameBytes(_, _)
\* The loop of buildFrames over the frame list.
frameBytes(frames, version) ==
    IF frames = <<>> THEN <<>>
    ELSE frameOne(Head(frames), version) \o frameBytes(Tail(frames), version)

\* buildFrames that takes the frames out of the list as it writes them.
buildFramesMut(m, version) ==
    LET after(b) ==
            IF ~b.ret \/ b.m.panic THEN [m |-> b.m, out |-> <<>>]
            ELSE [m |-> [b.m EXCEPT !.frames = <<>>],
                  out |-> frameBytes(b.m.frames, Version(b.m))]
    IN  after(Buffered(m))

\* Meta.buildFrames: the Meta after the call and the bytes returned (nil is
\* <<>>).  The parameter is shadowed by m.Version() inside the loop.
buildFrames(m, version) ==
    LET after(b) ==
            IF ~b.ret \/ b.m.panic THEN [m |-> b.m, out |-> <<>>]
            ELSE [m |-> b.m, out |-> frameBytes(b.m.frames, Version(b.m))]
    IN  after(Buffered(m))

\* Build that always writes 4 as the major version of the header.
BuildAsV4(m) ==
    LET tag(version, fr) ==
            IF fr.out = <<>> THEN [m |-> fr.m, out |-> <<>>]
            ELSE [m |-> fr.m,
                  out |-> Magic \o <<4, 0, 0>>
                          \o writeLen(Len(fr.out), 4, TRUE) \o fr.out]
        build(version) == tag(version, buildFrames(m, version))
    IN  build(IF Version(m) = 0 THEN 4 ELSE Version(m))

\* Build that writes the header whatever buildFrames returned.
BuildMut(m) ==
    LET tag(version, fr) ==
            [m |-> fr.m,
             out |-> Magic \o <<version, 0, 0>>
                     \o writeLen(Len(fr.out), version, TRUE) \o fr.out]
        build(version) == tag(version, buildFrames(m, version))
    IN  build(IF Version(m) = 0 THEN 4 ELSE Version(m))

\* Meta.Build: the Meta after the call and the tag returned (nil is <<>>).
Build(m) ==
    LET \* fr is what m.buildFrames(version) gave
        tag(version, fr) ==
            IF fr.out = <<>> THEN [m |-> fr.m, out |-> <<>>]
            ELSE [m |-> fr.m,
                  out |-> Magic \o <<version, 0, 0>>
                          \o writeLen(Len(fr.out), version, TRUE) \o fr.out]
        build(version) == tag(version, buildFrames(m, version))
    IN  build(IF Version(m) = 0 THEN 4 ELSE Version(m))

\* ------------------------------------------------------------ the inputs
TIT2 == <<84, 73, 84, 50>>
TALB == <<84, 65, 76, 66>>
COMM == <<67, 79, 77, 77>>
TT2 == <<84, 84, 50>>
TAL == <<84, 65, 76>>
COM == <<67, 79, 77>>

\* A 10-byte tag header for a body of n < 128 bytes.
Hdr(version, flags, n) == Magic \o <<version, 0, flags, 0, 0, 0, n>>

\* One frame on the wire with a payload shorter than 128 bytes: 4-byte id,
\* 4-byte length and two flag bytes, or for version 2 a 3-byte id and a
\* 3-byte length.
Fr(version, id4, id3, flagLo, payload) ==
    IF version = 2 THEN id3 \o <<0, 0, Len(payload)>> \o payload
    ELSE id4 \o <<0, 0, 0, Len(payload)>> \o <<0, flagLo>> \o payload

\* A frame whose header declares more bytes than the payload that follows.
FrCut(version, id4, id3, declared, payload) ==
    IF version = 2 THEN id3 \o <<0, 0, declared>> \o payload
    ELSE id4 \o <<0, 0, 0, declared>> \o <<0, 0>> \o payload

\* The bytes that follow the tag: the start of the audio data.
Audio == <<255, 251>>

\* Tag bodies without an extended header: empty; one UTF-8 frame; an
\* ISO-8859-1 frame, two frames of one id and zero padding; a UTF-16 frame
\* with BOM; a frame flagged compressed before a plain one; a frame cut short
\* by the end of the tag.
Bodies(v) ==
    { <<>>,
      Fr(v, TIT2, TT2, 0, <<3, 88, 0>>),
      Fr(v, TIT2, TT2, 0, <<0, 88>>) \o Fr(v, COMM, COM, 0, <<3, 89, 0>>)
          \o Fr(v, COMM, COM, 0, <<3, 90>>) \o <<0, 0, 0>>,
      Fr(v, TIT2, TT2, 0, <<1, 255, 254, 72, 0, 105, 0>>),
      Fr(v, TIT2, TT2, 4, <<3, 88, 0>>) \o Fr(v, TALB, TAL, 0, <<3, 89, 0>>),
      Fr(v, TIT2, TT2, 0, <<3, 88, 0>>) \o FrCut(v, TALB, TAL, 9, <<3, 89>>) }

\* Tag bodies that start with an extended header (header flag 0x40): one of
\* 6 bytes, and one whose declared length, 0, is below the 4 bytes of its own
\* length field.
ExtBodies(v) ==
    { <<0, 0, 0, 6, 1, 2>> \o Fr(v, TIT2, TT2, 0, <<3, 88, 0>>),
      <<0, 0, 0, 0>> \o Fr(v, TIT2, TT2, 0, <<3, 88, 0>>) }

Versions == {2, 3, 4}

\* Streams that begin with a complete tag.
TagStreams ==
    UNION { { Hdr(v, 0, Len(b)) \o b \o Audio : b \in Bodies(v) }
            \cup { Hdr(v, 64, Len(b)) \o b \o Audio : b \in ExtBodies(v) }
            : v \in Versions }

\* Streams that end before the declared end of their tag.
ShortStreams == { Hdr(3, 0, 13) \o TIT2 \o <<0, 0>>, SubSeq(Hdr(4, 0, 5), 1, 7) }

\* Streams that do not begin with "ID3": "RIFF" and two more bytes; "RIF"
\* followed by a whole tag; "IDx".
NoTagStreams ==
    { <<82, 73, 70, 70, 0, 1>>,
      <<82, 73, 70>> \o Hdr(4, 0, 0) \o Audio,
      <<73, 68, 120, 0>> }

Streams == TagStreams \cup ShortStreams \cup NoTagStreams

\* The ids and values the caller passes to SetValue: an id of each width, a
\* lower-case id and one with a character outside [0-9A-Z].
SetIds == { TIT2, <<116, 105, 116, 50>>, TT2, <<84, 45, 84, 50>> }
SetVals == { <<86>>, <<87, 0>> }
\* The ids the caller passes to GetValues.
GetIds == { TIT2, <<116, 105, 116, 50>>, TT2, COMM }

\* ------------------------------------------------------------ the state
VARIABLES
    stream,      \* the bytes of the audio file, in order
    supplied,    \* how many of them have been handed to Write so far
    consumed,    \* the sum of the counts the Write calls returned
    ret,         \* the last Write call: [op, n, err]
    buffer, alloc, buffered, noMeta, readFrames, frames,   \* the Meta
    parses,      \* how many times the body of parseFrames has run
    noTag,       \* a Write call has found data that is not a tag
    sets,        \* how many SetValue calls have been made
    crashed,     \* the process died of a run-time panic
    ep,          \* the Episode's feed data
    sink,        \* the bytes written to e.w so far
    copy,        \* io.Copy(e, ...): "run", "done" or "failed"
    last,        \* the last call a user of the store made: [op, id, value, multiple, out]
    show,        \* Show.Sync: s.Episodes, the loop's position and counters
    walk,        \* filter's walkFunc for one file: its position and locals
    DebugMode    \* the global flag of main.go

metaVars == <<buffer, alloc, buffered, noMeta, readFrames, frames, parses>>
drvVars == <<stream, supplied, consumed, ret, noTag, sets>>
epVars == <<ep, sink, copy>>
syncVars == <<show, walk, DebugMode>>
vars == <<metaVars, drvVars, epVars, crashed, last, syncVars>>

\* The Meta held in the state.
M ==
    [buffer |-> buffer, alloc |-> alloc, buffered |-> buffered, noMeta |-> noMeta,
     readFrames |-> readFrames, frames |-> frames, parses |-> parses, panic |-> FALSE]

\* The Meta m becomes the state's Meta.
Store(m) ==
    /\ buffer' = m.buffer
    /\ alloc' = m.alloc
    /\ buffered' = m.buffered
    /\ noMeta' = m.noMeta
    /\ readFrames' = m.readFrames
    /\ frames' = m.frames
    /\ parses' = m.parses

\* An unrecovered panic ends the process: no call returns and nothing else
\* happens.
Crash ==
    /\ crashed' = TRUE
    /\ UNCHANGED <<syncVars, metaVars, drvVars, epVars, last>>

NoEpisode == [active |-> FALSE]

\* Show.Sync is not running, no file is being inspected, and DebugMode is
\* off as main leaves it without -v.
NoShow == [active |-> FALSE]
NoWalk == [active |-> FALSE]
NoSync == show = NoShow /\ walk = NoWalk /\ DebugMode = FALSE

\* No call has been made yet.
NoCall == [op |-> "none", id |-> <<>>, value |-> <<>>, multiple |-> FALSE, out |-> <<>>]

Init ==
    /\ stream \in Streams
    /\ supplied = 0
    /\ consumed = 0
    /\ ret = [op |-> "none", n |-> 0, err |-> "nil"]
    /\ buffer = NewMeta.buffer
    /\ alloc = NewMeta.alloc
    /\ buffered = NewMeta.buffered
    /\ noMeta = NewMeta.noMeta
    /\ readFrames = NewMeta.readFrames
    /\ frames = NewMeta.frames
    /\ parses = 0
    /\ noTag = FALSE
    /\ sets = 0
    /\ crashed = FALSE
    /\ ep = NoEpisode
    /\ sink = <<>>
    /\ copy = "run"
    /\ last = NoCall
    /\ NoSync

\* The chunk lengths a caller may pass next: up to MaxChunk bytes, or all the
\* bytes that are left.
ChunkLens == { k \in (1..MaxChunk) \cup {Len(stream) - supplied} :
                 k >= 1 /\ supplied + k <= Len(stream) }

\* The next k bytes of the stream.
Chunk(k) == SubSeq(stream, supplied + 1, supplied + k)

\* m.Write(p) with the next k bytes of the stream.
CallWrite(k) ==
    /\ ~crashed
    /\ k \in ChunkLens
    /\ \E r \in {Write(M, Chunk(k))} :
           IF r.m.panic THEN Crash
           ELSE /\ Store(r.m)
                /\ supplied' = supplied + k
                /\ consumed' = consumed + r.n
                /\ ret' = [op |-> "Write", n |-> r.n, err |-> r.err]
                /\ noTag' = (noTag \/ r.notag)
                /\ UNCHANGED <<syncVars, stream, sets, epVars, crashed, last>>

\* A call that returns a value and may change the Meta on the way.
Call(m) ==
    IF m.panic THEN Crash
    ELSE /\ Store(m)
         /\ UNCHANGED <<syncVars, drvVars, epVars, crashed, last>>

\* m.Buffered()
CallBuffered == ~crashed /\ \E r \in {Buffered(M)} : Call(r.m)

\* m.NumFrames()
CallNumFrames == ~crashed /\ \E r \in {NumFrames(M)} : Call(r.m)

\* m.GetValues(id)
CallGetValues(id) == ~crashed /\ \E r \in {GetValues(M, id)} : Call(r.m)

\* m.Build()
CallBuild == ~crashed /\ \E r \in {Build(M)} : Call(r.m)

\* m.SetValue(id, value, multiple)
CallSetValue(id, value, multiple) ==
    /\ ~crashed
    /\ sets < MaxSets
    /\ \E m \in {SetValue(M, id, value, multiple)} :
           IF m.panic THEN Crash
           ELSE /\ Store(m)
                /\ sets' = sets + 1
                /\ UNCHANGED <<syncVars, stream, supplied, consumed, ret, noTag, epVars, crashed, last>>

Next ==
    \/ \E k \in 1..(MaxChunk + Len(stream)) : CallWrite(k)
    \/ CallBuffered
    \/ CallNumFrames
    \/ \E id \in GetIds : CallGetValues(id)
    \/ CallBuild
    \/ \E id \in SetIds, value \in SetVals, multiple \in BOOLEAN :
           CallSetValue(id, value, multiple)

Spec == Init /\ [][Next]_vars


\* ------------------------------------------------- the store and its user
\* The streams the store is filled from: for each version a tag without
\* frames, one with an ISO-8859-1 frame, two frames of one id and padding, and
\* one with a UTF-16 frame; a stream cut short; two streams without a tag.
StoreBodies(v) ==
    { <<>>,
      Fr(v, TIT2, TT2, 0, <<0, 88>>) \o Fr(v, COMM, COM, 0, <<3, 89, 0>>)
          \o Fr(v, COMM, COM, 0, <<3, 90>>) \o <<0, 0, 0>>,
      Fr(v, TIT2, TT2, 0, <<1, 255, 254, 72, 0, 105, 0>>) }

StoreStreams ==
    UNION { { Hdr(v, 0, Len(b)) \o b \o Audio : b \in StoreBodies(v) } : v \in Versions }
    \cup { Hdr(3, 0, 13) \o TIT2 \o <<0, 0>> }
    \cup { <<82, 73, 70, 70, 0, 1>>, <<73, 68, 120, 0>> }

\* The chunk lengths of the user of the store: MaxChunk bytes, the bytes up
\* to the tag boundary the header declares, or all the bytes that are left.
StoreChunkLens ==
    { k \in ChunkLens :
        \/ k = MaxChunk
        \/ k = Len(stream) - supplied
        \/ /\ Len(stream) >= 10
           /\ supplied + k = 10 + stream[7] * 2097152 + stream[8] * 16384
                                 + stream[9] * 128 + stream[10] }

\* m.Write(p) with the next k bytes of the stream.
StoreWrite(k) ==
    /\ ~crashed
    /\ k \in StoreChunkLens
    /\ \E r \in {Write(M, Chunk(k))} :
           IF r.m.panic THEN Crash
           ELSE /\ Store(r.m)
                /\ supplied' = supplied + k
                /\ consumed' = consumed + r.n
                /\ ret' = [op |-> "Write", n |-> r.n, err |-> r.err]
                /\ noTag' = (noTag \/ r.notag)
                /\ last' = [NoCall EXCEPT !.op = "Write"]
                /\ UNCHANGED <<syncVars, stream, sets, epVars, crashed>>

\* out = m.Build()
StoreBuild ==
    /\ ~crashed
    /\ \E r \in {Build(M)} :
           IF r.m.panic THEN Crash
           ELSE /\ Store(r.m)
                /\ last' = [NoCall EXCEPT !.op = "Build", !.out = r.out]
                /\ UNCHANGED <<syncVars, drvVars, epVars, crashed>>

\* out = m.GetValues(id)
StoreGetValues(id) ==
    /\ ~crashed
    /\ \E r \in {GetValues(M, id)} :
           IF r.m.panic THEN Crash
           ELSE /\ Store(r.m)
                /\ last' = [NoCall EXCEPT !.op = "GetValues", !.id = id, !.out = r.out]
                /\ UNCHANGED <<syncVars, drvVars, epVars, crashed>>

\* The values the user of the store sets: one byte, and MaxValue bytes, with
\* which a frame length and a tag length take more than 7 bits.
StoreVals == { <<86>>, [i \in 1..MaxValue |-> 65] }

\* m.SetValue(id, value, multiple)
StoreSetValue(id, value, multiple) ==
    /\ ~crashed
    /\ sets < MaxSets
    /\ \E m \in {SetValue(M, id, value, multiple)} :
           IF m.panic THEN Crash
           ELSE /\ Store(m)
                /\ sets' = sets + 1
                /\ last' = [NoCall EXCEPT !.op = "SetValue", !.id = id, !.value = value,
                                          !.multiple = multiple]
                /\ UNCHANGED <<syncVars, stream, supplied, consumed, ret, noTag, epVars, crashed>>

NextStore ==
    \/ \E k \in 1..(MaxChunk + Len(stream)) : StoreWrite(k)
    \/ StoreBuild
    \/ \E id \in GetIds : StoreGetValues(id)
    \/ \E id \in SetIds, value \in StoreVals, multiple \in BOOLEAN :
           StoreSetValue(id, value, multiple)

\* A new Meta and a stream to fill it from.
InitStore ==
    /\ stream \in StoreStreams
    /\ supplied = 0
    /\ consumed = 0
    /\ ret = [op |-> "none", n |-> 0, err |-> "nil"]
    /\ buffer = NewMeta.buffer
    /\ alloc = NewMeta.alloc
    /\ buffered = NewMeta.buffered
    /\ noMeta = NewMeta.noMeta
    /\ readFrames = NewMeta.readFrames
    /\ frames = NewMeta.frames
    /\ parses = 0
    /\ noTag = FALSE
    /\ sets = 0
    /\ crashed = FALSE
    /\ ep = NoEpisode
    /\ sink = <<>>
    /\ copy = "run"
    /\ last = NoCall
    /\ NoSync

SpecStore == InitStore /\ [][NextStore]_vars

\* ------------------------------------------------------------ the Episode
\* The frame ids of addFrames.
TP1 == <<84, 80, 49>>
TPE1 == <<84, 80, 69, 49>>
TP2 == <<84, 80, 50>>
TPE2 == <<84, 80, 69, 50>>
TPA == <<84, 80, 65>>
TPOS == <<84, 80, 79, 83>>
TRK == <<84, 82, 75>>
TRCK == <<84, 82, 67, 75>>
TT3 == <<84, 84, 51>>
TDES == <<84, 68, 69, 83>>
WAF == <<87, 65, 70>>
WOAF == <<87, 79, 65, 70>>
TYE == <<84, 89, 69>>
TYER == <<84, 89, 69, 82>>
TDA == <<84, 68, 65>>
TDAT == <<84, 68, 65, 84>>
TIM == <<84, 73, 77>>
TIME == <<84, 73, 77, 69>>
TDRC == <<84, 68, 82, 67>>
TT1 == <<84, 84, 49>>
TCON == <<84, 67, 79, 78>>
PCST == <<80, 67, 83, 84>>
APIC == <<65, 80, 73, 67>>
PIC == <<80, 73, 67>>

RECURSIVE Digits(_, _)
\* n in decimal, zero-padded to w digits, as time.Format writes a field.
Digits(n, w) ==
    IF w = 0 THEN <<>> ELSE Digits(n \div 10, w - 1) \o <<48 + (n % 10)>>

\* The table of addFrames for episode e: the id for each version ("" is <<>>)
\* and the value.  e.ts is parseDate(e.Date).
FrameTable(e) ==
    << [idv2 |-> TP1, idv3 |-> TPE1, idv4 |-> TPE1, value |-> e.showArtist],
       [idv2 |-> TP2, idv3 |-> TPE2, idv4 |-> TPE2, value |-> e.showArtist],
       [idv2 |-> TPA, idv3 |-> TPOS, idv4 |-> TPOS, value |-> e.Season],
       [idv2 |-> TRK, idv3 |-> TRCK, idv4 |-> TRCK, value |-> e.Number],
       [idv2 |-> TT3, idv3 |-> TDES, idv4 |-> TDES, value |-> e.Desc],
       [idv2 |-> WAF, idv3 |-> WOAF, idv4 |-> WOAF, value |-> e.URL],
       [idv2 |-> TYE, idv3 |-> TYER, idv4 |-> <<>>, value |-> Digits(e.ts.Y, 4)],
       [idv2 |-> TDA, idv3 |-> TDAT, idv4 |-> <<>>,
        value |-> Digits(e.ts.D, 2) \o Digits(e.ts.M, 2)],
       [idv2 |-> TIM, idv3 |-> TIME, idv4 |-> <<>>,
        value |-> Digits(e.ts.h, 2) \o Digits(e.ts.m, 2)],
       [idv2 |-> <<>>, idv3 |-> <<>>, idv4 |-> TDRC,
        value |-> Digits(e.ts.Y, 4) \o Digits(e.ts.M, 2) \o Digits(e.ts.D, 2)
                  \o <<84>> \o Digits(e.ts.h, 2) \o Digits(e.ts.m, 2)
                  \o Digits(e.ts.s, 2)],
       [idv2 |-> TT1, idv3 |-> TCON, idv4 |-> TCON,
        value |-> <<80, 111, 100, 99, 97, 115, 116>>],
       [idv2 |-> <<>>, idv3 |-> PCST, idv4 |-> PCST, value |-> <<49>>] >>

\* addRow that sets the frame whether or not the Meta has a value for the id.
addRowMut(m, row) ==
    LET set(id) ==
            IF id = <<>> \/ row.value = <<>> THEN m
            ELSE SetValue(m, id, row.value, FALSE)
        pick(version) ==
            set(CASE version = 2 -> row.idv2
                  [] version = 3 -> row.idv3
                  [] version = 4 -> row.idv4
                  [] OTHER -> <<>>)
    IN  pick(Version(m))

\* One pass of the loop over the table: the frame is set when the version has
\* an id for it, the value is not empty and the Meta has no value for the id.
addRow(m, row) ==
    LET set(id) ==
            LET after(g) ==
                    IF g.out = <<>> THEN SetValue(g.m, id, row.value, FALSE) ELSE g.m
            IN  IF id = <<>> \/ row.value = <<>> THEN m ELSE after(GetValues(m, id))
        pick(version) ==
            set(CASE version = 2 -> row.idv2
                  [] version = 3 -> row.idv3
                  [] version = 4 -> row.idv4
                  [] OTHER -> <<>>)
    IN  pick(Version(m))

RECURSIVE addRows(_, _)
\* The loop of addFrames over the table; m1 is the Meta after the pass for
\* the first row.
addRows(m, rows) ==
    IF rows = <<>> THEN m
    ELSE CHOOSE out \in { addRows(m1, Tail(rows)) : m1 \in {addRow(m, Head(rows))} } : TRUE

\* Episode.addFrames: the Meta after the call.  e.image is what downloadImage
\* returns (nil is <<>>).
addFrames(m, e) ==
    LET image(m1, id) ==
            LET after(g) ==
                    IF g.out = <<>> /\ e.image # <<>>
                    THEN SetValue(g.m, id, e.image, FALSE) ELSE g.m
            IN  after(GetValues(m1, id))
        \* m1 is the Meta after the first SetValue
        titles(version) ==
            IF version = 2
            THEN CHOOSE out \in { SetValue(m1, TT2, e.Title, FALSE) :
                                  m1 \in {SetValue(m, TAL, e.showTitle, FALSE)} } : TRUE
            ELSE CHOOSE out \in { SetValue(m1, TIT2, e.Title, FALSE) :
                                  m1 \in {SetValue(m, TALB, e.showTitle, FALSE)} } : TRUE
        \* m1 is the Meta after the loop over the table
        add(version) ==
            IF version \notin {2, 3, 4} THEN m
            ELSE CHOOSE out \in { image(m1, IF version = 2 THEN PIC ELSE APIC) :
                                  m1 \in {addRows(titles(version), FrameTable(e))} } : TRUE
    IN  add(IF Version(m) = 0 THEN 3 ELSE Version(m))

\* The part of Episode.Write after e.meta.Write(p) returned r with io.EOF:
\* e.addFrames(), e.meta.Build(), the tag written to e.w and then the bytes
\* of p that follow the consumed ones.  m1 is the Meta after addFrames and bd
\* is what Build gave.
writeTag(r, w, p, e) ==
    CHOOSE out \in
        { [m |-> bd.m, w |-> w \o bd.out \o SubSeq(p, r.n + 1, Len(p)),
           n |-> r.n + (Len(p) - r.n), err |-> "nil"] :
          bd \in { Build(m1) : m1 \in { addFrames(m0, e) : m0 \in {r.m} } } } : TRUE

\* Episode.Write with e.meta = m and w the bytes written to e.w so far: the
\* Meta and the bytes of e.w after the call, the count and the error returned.
\* e.w is a file that takes every byte it is given.  b is what
\* e.meta.Buffered() gave and r what e.meta.Write(p) gave.
EpisodeWrite(m, w, p, e) ==
    CHOOSE out \in
        { IF b.m.panic THEN [m |-> b.m, w |-> w, n |-> 0, err |-> "nil"]
          ELSE IF b.ret THEN [m |-> b.m, w |-> w \o p, n |-> Len(p), err |-> "nil"]
          ELSE CHOOSE res \in
                   { IF r.m.panic \/ r.err # "EOF"
                     THEN [m |-> r.m, w |-> w, n |-> r.n, err |-> r.err]
                     ELSE writeTag(r, w, p, e) :
                     r \in {Write(b.m, p)} } : TRUE :
          b \in {Buffered(m)} } : TRUE

\* parseDate's result for an empty or unreadable date, and for a date.
ZeroTime == [Y |-> 1, M |-> 1, D |-> 1, h |-> 0, m |-> 0, s |-> 0]
SomeTime == [Y |-> 2020, M |-> 1, D |-> 2, h |-> 15, m |-> 4, s |-> 5]

\* The episodes downloaded: one with only the fields validateData demands,
\* one with every field and an image.
Episodes ==
    { [active |-> TRUE, showTitle |-> <<83>>, Title |-> <<69>>, showArtist |-> <<>>,
       Season |-> <<>>, Number |-> <<>>, Desc |-> <<>>, URL |-> <<117>>,
       ts |-> ZeroTime, image |-> <<>>],
      [active |-> TRUE, showTitle |-> <<83>>, Title |-> <<69>>, showArtist |-> <<65>>,
       Season |-> <<50>>, Number |-> <<49>>, Desc |-> <<68>>, URL |-> <<117>>,
       ts |-> SomeTime, image |-> <<0, 3, 0, 137>>] }

\* Download up to io.Copy: e.meta = NewMeta(nil), e.w = the new file.
InitEpisode ==
    /\ stream \in Streams
    /\ supplied = 0
    /\ consumed = 0
    /\ ret = [op |-> "none", n |-> 0, err |-> "nil"]
    /\ buffer = NewMeta.buffer
    /\ alloc = NewMeta.alloc
    /\ buffered = NewMeta.buffered
    /\ noMeta = NewMeta.noMeta
    /\ readFrames = NewMeta.readFrames
    /\ frames = NewMeta.frames
    /\ parses = 0
    /\ noTag = FALSE
    /\ sets = 0
    /\ crashed = FALSE
    /\ ep \in Episodes
    /\ sink = <<>>
    /\ copy = "run"
    /\ last = NoCall
    /\ NoSync

\* One pass of the loop of io.Copy(e, tee): the reader gives the next k bytes
\* and e.Write is called with them.  A count below k or an error ends the
\* copy, and Download removes the file.
CopyWrite(k) ==
    /\ ~crashed
    /\ ep.active
    /\ copy = "run"
    /\ k \in ChunkLens
    /\ \E r \in { EpisodeWrite(m, sink, p, ep) : m \in {M}, p \in {Chunk(k)} } :
           IF r.m.panic THEN Crash
           ELSE /\ Store(r.m)
                /\ supplied' = supplied + k
                /\ consumed' = consumed + r.n
                /\ ret' = [op |-> "EpisodeWrite", n |-> r.n, err |-> r.err]
                /\ IF r.err # "nil" \/ r.n # k
                   THEN copy' = "failed" /\ sink' = <<>>
                   ELSE copy' = "run" /\ sink' = r.w
                /\ UNCHANGED <<syncVars, stream, noTag, sets, ep, crashed, last>>

\* The reader reports the end of the stream: io.Copy returns nil.
CopyEnd ==
    /\ ~crashed
    /\ ep.active
    /\ copy = "run"
    /\ supplied = Len(stream)
    /\ copy' = "done"
    /\ UNCHANGED <<syncVars, metaVars, drvVars, ep, sink, crashed, last>>

NextEpisode ==
    \/ \E k \in 1..(MaxChunk + Len(stream)) : CopyWrite(k)
    \/ CopyEnd

SpecEpisode == InitEpisode /\ [][NextEpisode]_vars

\* ------------------------------------------------------------ vocabulary
\* The stream begins with a well-formed 10-byte header: the magic and four
\* length bytes whose high bit is clear.
WellFormed ==
    /\ Len(stream) >= 10
    /\ SubSeq(stream, 1, 3) = Magic
    /\ \A i \in 7..10 : stream[i] < 128

\* total = L + 10 for the length L the header of the stream declares.
Total ==
    stream[7] * 2097152 + stream[8] * 16384 + stream[9] * 128 + stream[10] + 10

\* The stream begins with a complete tag.
HasTag == WellFormed /\ Len(stream) >= Total

\* What m.Buffered() would return now (FALSE if it would panic).
Complete == \E r \in {Buffered(M)} : r.ret /\ ~r.m.panic

\* The frame list as the API shows it: the frames after m.Buffered().
APIFrames == Buffered(M).m.frames

\* A step that is a Write call that returned.
WriteStep == supplied' # supplied

\* The chunk passed by the Write call of this step.
StepChunk == SubSeq(stream, supplied + 1, supplied')

\* Every character of id is in [0-9A-Z].
ValidId(id) == \A i \in 1..Len(id) : (id[i] >= 48 /\ id[i] <= 57) \/ (id[i] >= 65 /\ id[i] <= 90)

\* ------------------------------------------------------------ C1
\* C1: for a stream that begins with a well-formed header declaring L and
\* holds at least L+10 bytes, under every chunking the counts returned by
\* Write sum to the bytes supplied up to the tag boundary and to exactly L+10
\* from then on, and the buffer is that prefix of the stream: once the
\* boundary has been passed the buffer is the first L+10 bytes, so the byte at
\* offset Len() is the first audio byte.
C1_BoundaryExact ==
    HasTag =>
        /\ consumed = Min(supplied, Total)
        /\ buffer = SubSeq(stream, 1, Min(supplied, Total))

\* A chunk that straddled the tag boundary has been written.
C1_Witness ==
    /\ HasTag
    /\ supplied > Total
    /\ consumed = Total
    /\ ret.n >= 2
    /\ ret.err = "EOF"

\* ------------------------------------------------------------ C2
\* The output of Meta.Build after addFrames for the tag of the stream.
RebuiltTag ==
    CHOOSE out \in { Build(m1).out :
                     m1 \in { addFrames(m0, ep) :
                              m0 \in {NewMetaOf(SubSeq(stream, 1, Total))} } } : TRUE

\* C2 as claimed: under every chunking of a stream that begins with a
\* complete tag, once bytes past the tag have been handed to Episode.Write the
\* sink holds the rebuilt tag once, followed by exactly the bytes after the
\* tag boundary handed over so far, in order.
C2_TagThenAudio ==
    (HasTag /\ ep.active /\ ~crashed /\ copy # "failed" /\ supplied > Total) =>
        sink = RebuiltTag \o SubSeq(stream, Total + 1, supplied)

\* ------------------------------------------------------------ C3
\* C3 as claimed: the Write call whose bytes bring the buffered length up to
\* total returns io.EOF with n = the bytes it needed, and no earlier call
\* returns io.EOF.
C3_CompletionOnSameCall ==
    [][ (HasTag /\ WriteStep /\ supplied < Total) =>
            IF supplied' >= Total
            THEN ret'.err = "EOF" /\ ret'.n = Total - supplied
            ELSE ret'.err = "nil" ]_vars

\* ------------------------------------------------------------ C4
\* C4 as claimed: from the Write call that sees three or more buffered bytes
\* that are not "ID3" on, every Write call returns 0.
C4_NoTagConsumesNothing ==
    [][ (WriteStep /\ noTag') => ret'.n = 0 ]_vars

\* ------------------------------------------------------------ C5
\* C5 as claimed: after a Write that found a stream without a tag, Buffered()
\* returns true, whatever calls follow.
C5_NoTagLatched == noTag => Buffered(M).ret

\* ------------------------------------------------------------ C6
\* C6: once the tag is complete (Buffered() reports true), a Write call
\* consumes nothing, returns io.EOF and leaves the buffered bytes, the version
\* and the frame list as the API shows it unchanged.
C6_WriteAfterCompleteRejected ==
    [][ (Complete /\ WriteStep) =>
            /\ ret'.n = 0
            /\ ret'.err = "EOF"
            /\ buffer' = buffer
            /\ Version(M)' = Version(M)
            /\ APIFrames' = APIFrames ]_vars

\* A Write call was rejected after the tag had been completed and changed.
C6_Witness ==
    /\ buffered
    /\ Len(frames) >= 2
    /\ sets >= 1
    /\ ret.op = "Write"
    /\ ret.n = 0
    /\ ret.err = "EOF"

\* ------------------------------------------------------------ C7
\* C7: once the 10-byte header is buffered, the buffer never holds more than
\* the total the header declares.
C7_NeverPastTotal ==
    (Len(buffer) >= 10 /\ SubSeq(buffer, 1, 3) = Magic) =>
        Len(buffer) <= 10 + buffer[7] * 2097152 + buffer[8] * 16384
                          + buffer[9] * 128 + buffer[10]

\* Bytes past the tag boundary were offered in the call that completed the
\* tag, and were not kept.
C7_Witness ==
    /\ ret.op = "Write"
    /\ ret.err = "EOF"
    /\ ret.n >= 1
    /\ supplied - consumed >= 2
    /\ Len(buffer) = length(M)

\* ------------------------------------------------------------ C8
\* C8: a Write call after which fewer than 3 bytes are buffered, or the magic
\* matches and fewer than 10 bytes are buffered, or the header is there and
\* fewer than total bytes are buffered, returns len(p) and no error and
\* appends the chunk unchanged.
C8_NeedMoreConsumesAll ==
    [][ WriteStep =>
          LET all == buffer \o StepChunk
              n == Len(all)
              magic == n >= 3 /\ SubSeq(all, 1, 3) = Magic
              total == 10 + all[7] * 2097152 + all[8] * 16384 + all[9] * 128 + all[10]
          IN  (n < 3 \/ (magic /\ n < 10) \/ (magic /\ n >= 10 /\ n < total)) =>
                  /\ ret'.n = Len(StepChunk)
                  /\ ret'.err = "nil"
                  /\ buffer' = all ]_vars

\* A Write call inside the tag body was consumed whole.
C8_Witness ==
    /\ ret.op = "Write"
    /\ ret.n >= 2
    /\ ret.err = "nil"
    /\ Len(buffer) > 10
    /\ Len(buffer) < length(M)

\* ------------------------------------------------------------ C9
\* C9: the body of parseFrames has run exactly once when the tag is complete
\* and not at all before; afterwards the frame list changes only in SetValue
\* calls, and it never holds more frames than the tag's own plus one per
\* SetValue call.
C9_ParsedOnce ==
    /\ [](parses = (IF buffered THEN 1 ELSE 0))
    /\ [](buffered => Len(frames) <= Len(parseLoop(parseStart(buffer).buf,
                                                  parseStart(buffer).version, <<>>)) + sets)
    /\ [][ (buffered /\ frames' # frames) => sets' = sets + 1 ]_vars

\* A complete tag with parsed frames on which further calls were made.
C9_Witness ==
    /\ buffered
    /\ parses = 1
    /\ sets = MaxSets
    /\ Len(frames) >= 4
    /\ ret.err = "EOF"
    /\ ret.n = 0

\* ------------------------------------------------------------ C10
\* The ids GetValues is compared on: those of the store and those a caller
\* asks for.
RoundTripIds == { frames[i].id : i \in 1..Len(frames) } \cup GetIds

\* C10: for a complete tag of version 2, 3 or 4 whose frames all have valid
\* ids, a fresh Meta fed the bytes Build returns gives, for every id, the same
\* GetValues result as the original store.
C10_RoundTrip ==
    (Complete /\ Version(M) \in {2, 3, 4}
       /\ \A i \in 1..Len(APIFrames) : ValidId(APIFrames[i].id)) =>
        \E m2 \in {NewMetaOf(Build(M).out)} :
            \A id \in RoundTripIds : GetValues(m2, id).out = GetValues(M, id).out

\* A store with a repeated id and an injected value that ends in NUL is built
\* and read back.
C10_Witness ==
    /\ buffered
    /\ Len(valuesOf(frames, COMM)) = 2
    /\ valuesOf(frames, TIT2) = << <<87, 0>> >>
    /\ Len(Build(M).out) > 10

\* ------------------------------------------------------------ C11
\* C11: in every state Build leaves the buffered bytes and the frame list as
\* the API shows it unchanged (the list itself once the tag has been parsed),
\* and a second Build right after it returns the same bytes; a Build call on a
\* parsed store changes neither the frames nor the buffer, and when it follows
\* another Build call it returns what that one returned.
C11_BuildReadOnly ==
    /\ [](\E r \in {Build(M)} :
             (~crashed /\ ~r.m.panic) =>
                 /\ r.m.buffer = buffer
                 /\ buffered => r.m.frames = frames
                 /\ Buffered(r.m).m.frames = APIFrames
                 /\ Build(r.m).out = r.out)
    /\ [][ (last'.op = "Build" /\ buffered) =>
              /\ frames' = frames
              /\ buffer' = buffer
              /\ last.op = "Build" => last'.out = last.out ]_vars

\* Build has returned a tag for a parsed store of three or more frames, one
\* of them injected.
C11_Witness ==
    /\ last.op = "Build"
    /\ Len(last.out) > 10
    /\ buffered
    /\ sets >= 1
    /\ Len(frames) >= 3

\* ------------------------------------------------------------ C12
\* A step that is a SetValue call that returned; last' holds its arguments.
SetStep == sets' = sets + 1

\* The SetValue call of this step has an id of the width of the tag's version
\* and is made on a complete tag.
SetAccepted == SetStep /\ Complete /\ Len(last'.id) = idWidth(Version(M))

\* C12 as claimed: after SetValue(id, v, false) with an id of the version's
\* width on a complete tag, exactly one frame has the id passed, its value is
\* v and it is the last frame.
C12_SingletonAsPassed ==
    [][ (SetAccepted /\ ~last'.multiple) =>
            /\ valuesOf(frames', last'.id) = <<last'.value>>
            /\ frames'[Len(frames')] = Frame(last'.id, last'.value) ]_vars

\* C12 amended: after SetValue(id, v, false) with an id of the version's width
\* on a complete tag, exactly one frame has the id in upper case, its value is
\* v and it is the last frame; so after two such calls the frame holds the
\* second value.
C12_SingletonUpper ==
    [][ (SetAccepted /\ ~last'.multiple) =>
            /\ valuesOf(frames', ToUpper(last'.id)) = <<last'.value>>
            /\ frames'[Len(frames')] = Frame(ToUpper(last'.id), last'.value) ]_vars

\* A second SetValue(id, v, false), with a lower-case id, replaced the frame of
\* a parsed tag that had other frames too.
C12_Witness ==
    /\ sets = 2
    /\ last.op = "SetValue"
    /\ ~last.multiple
    /\ last.id = <<116, 105, 116, 50>>
    /\ valuesOf(frames, TIT2) = <<last.value>>
    /\ Len(frames) = 3

\* ------------------------------------------------------------ C13
\* C13 as claimed: SetValue(id, v, true) on a complete tag with an id of the
\* version's width makes the frame list the list before followed by (id, v);
\* SetValue(id, v, false) leaves the frames whose id differs from id, their
\* values and their order as they were.
C13_FrameEffectAsPassed ==
    [][ SetAccepted =>
            IF last'.multiple
            THEN frames' = Append(APIFrames, Frame(last'.id, last'.value))
            ELSE without(frames', last'.id) = without(APIFrames, last'.id) ]_vars

\* C13 amended: the same with the id in upper case: the frame appended
\* carries the upper-cased id, and the frames kept are those whose id differs
\* from the upper-cased id.
C13_FrameEffectUpper ==
    [][ SetAccepted =>
            IF last'.multiple
            THEN frames' = Append(APIFrames, Frame(ToUpper(last'.id), last'.value))
            ELSE without(frames', ToUpper(last'.id)) = without(APIFrames, ToUpper(last'.id)) ]_vars

\* Two SetValue(id, v, true) calls have added two frames to a parsed tag that
\* already had a frame of that id and two of another.
C13_Witness ==
    /\ sets = 2
    /\ last.op = "SetValue"
    /\ last.multiple
    /\ Len(valuesOf(frames, TIT2)) = 3
    /\ Len(valuesOf(frames, COMM)) = 2
    /\ frames[Len(frames)].value = last.value

\* ------------------------------------------------------------ C14
\* C14: a SetValue call with an id whose length is not the width of the tag's
\* version, or made while the tag is not complete, leaves the frame list as
\* the API shows it, the parsed list and the buffer unchanged.
C14_SetValueNoOp ==
    [][ (SetStep /\ (~Complete \/ Len(last'.id) # idWidth(Version(M)))) =>
            /\ APIFrames' = APIFrames
            /\ buffered => frames' = frames
            /\ buffer' = buffer ]_vars

\* SetValue was called with a 3-character id on a complete version 3 tag that
\* holds frames, and no frame has that id.
C14_Witness ==
    /\ last.op = "SetValue"
    /\ last.id = TT2
    /\ buffered
    /\ Version(M) = 3
    /\ Len(frames) >= 3
    /\ valuesOf(frames, TT2) = <<>>

\* ------------------------------------------------------------ C15
\* The values of the frames of list whose id is id character for character,
\* in the order of the list.
Matching(list, id) ==
    LET sel == SelectSeq(list, LAMBDA f : f.id = id)
    IN  [i \in 1..Len(sel) |-> sel[i].value]

\* C15: what GetValues(id) returned is the values of the frames whose id
\* equals id character for character, in store order, and nothing when the
\* tag is not complete; a GetValues call leaves the frame list as the API
\* shows it, and the parsed list, unchanged.
C15_GetValuesExact ==
    /\ [](last.op = "GetValues" =>
             last.out = (IF Complete THEN Matching(frames, last.id) ELSE <<>>))
    /\ [][ last'.op = "GetValues" =>
              /\ APIFrames' = APIFrames
              /\ buffered => frames' = frames ]_vars

\* GetValues returned the two values of a repeated id in store order, from a
\* store with a frame of another id.
C15_Witness ==
    /\ last.op = "GetValues"
    /\ last.id = COMM
    /\ last.out = << <<89>>, <<90>> >>
    /\ Len(frames) >= 3

\* ------------------------------------------------------------ C16
\* C16 as claimed: in every reachable state every frame of the store has an
\* id of the width of the tag's version made only of characters in [0-9A-Z].
C16_FrameIdsValid ==
    \A i \in 1..Len(frames) :
        /\ Len(frames[i].id) = idWidth(Version(M))
        /\ ValidId(frames[i].id)

\* ------------------------------------------------------------ C17
\* C17 as claimed: once Write has found that the stream carries no tag, a
\* frame injected by SetValue with a 4-character id is in the store, and Build
\* returns a tag of major version 4 that is more than a header.
C17_NoTagBuildsVersion4 ==
    (noTag /\ last.op = "SetValue" /\ Len(last.id) = 4 /\ ValidId(last.id)) =>
        /\ Matching(APIFrames, ToUpper(last.id)) # <<>>
        /\ \E r \in {Build(M)} : Len(r.out) > 10 /\ r.out[4] = 4

\* ------------------------------------------------------------ C18
\* C18: in every state Build returns nothing when the store holds no frames
\* or the tag is not completely buffered, and what it returns is never just a
\* header; a Build call made on such a store has returned nothing.
C18_NoHeaderOnlyTag ==
    /\ [](\E r \in {Build(M)} :
             (~crashed /\ ~r.m.panic) =>
                 /\ (APIFrames = <<>> \/ ~Complete) => r.out = <<>>
                 /\ r.out = <<>> \/ Len(r.out) > 10)
    /\ []((last.op = "Build" /\ (frames = <<>> \/ ~Complete)) => last.out = <<>>)

\* Build returned nothing for a complete tag without frames, after a SetValue
\* call that was refused.
C18_Witness ==
    /\ last.op = "Build"
    /\ last.out = <<>>
    /\ buffered
    /\ frames = <<>>
    /\ sets >= 1

\* ------------------------------------------------------------ C19
RECURSIVE Emitted(_, _, _)
\* The bytes b are, for each frame of list in order: its id, a length field of
\* the width of version that reads back as len(value)+2, two zero bytes unless
\* version is 2, the byte 3, the value and one NUL byte; and nothing else.
Emitted(b, list, version) ==
    IF list = <<>> THEN b = <<>>
    ELSE \E f \in {Head(list)} :
         \E w \in {idWidth(version)} :
         \E p \in {idWidth(version) + lenWidth(version, FALSE)
                      + (IF version = 2 THEN 0 ELSE 2)} :
         \E n \in {p + Len(f.value) + 2} :
             /\ Len(f.id) = w
             /\ Len(b) >= n
             /\ SubSeq(b, 1, w) = f.id
             /\ readLen(SubSeq(b, w + 1, w + lenWidth(version, FALSE)),
                        version, FALSE) = Len(f.value) + 2
             /\ \A i \in (w + lenWidth(version, FALSE) + 1)..p : b[i] = 0
             /\ b[p + 1] = 3
             /\ SubSeq(b, p + 2, n - 1) = f.value
             /\ b[n] = 0
             /\ Emitted(SubSeq(b, n + 1, Len(b)), Tail(list), version)

HeaderExact(out, version) ==
    /\ Len(out) > 10
    /\ SubSeq(out, 1, 3) = <<73, 68, 51>>
    /\ out[4] = version
    /\ out[5] = 0
    /\ out[6] = 0
    /\ \A i \in 7..10 : out[i] < 128
    /\ out[7] * 2097152 + out[8] * 16384 + out[9] * 128 + out[10] = Len(out) - 10
    /\ \E w \in {Write(NewMeta, out \o Audio)} :
           ~w.m.panic /\ w.n = Len(out) /\ w.err = "EOF"

\* C20: whenever Build returns a tag it starts with "ID3", the major version
\* of the tag, minor version 0 and flags 0, and a 4-byte synch-safe length
\* equal to the number of bytes after the 10-byte header, so that feeding the
\* tag to a new Meta consumes exactly its length; the same for the tag a Build
\* call returned.
C20_HeaderExact ==
    /\ [](\E r \in {Build(M)} :
             (~crashed /\ ~r.m.panic /\ r.out # <<>>) =>
                 HeaderExact(r.out, Version(M)))
    /\ []((last.op = "Build" /\ last.out # <<>>) =>
             HeaderExact(last.out, Version(M)))

\* Build returned a tag of more than 255 bytes after the header.
C20_Witness ==
    /\ last.op = "Build"
    /\ Len(last.out) > 265
    /\ last.out[9] = 2
    /\ sets = MaxSets

\* ------------------------------------------------------------ C21
RECURSIVE Walk(_, _, _)
\* The bytes b are n frames laid out for version: each an id of the version's
\* id width, a length field of the version's width, two flag bytes unless the
\* version is 2, and as many bytes as the length field says.
Walk(b, n, version) ==
    IF n = 0 THEN b = <<>>
    ELSE \E w \in {idWidth(version)} :
         \E p \in {idWidth(version) + lenWidth(version, FALSE)
                      + (IF version = 2 THEN 0 ELSE 2)} :
         \E size \in {readLen(SubSeq(b, w + 1, w + lenWidth(version, FALSE)),
                               version, FALSE)} :
             /\ Len(b) >= p
             /\ size >= 2
             /\ Len(b) >= p + size
             /\ Walk(SubSeq(b, p + size + 1, Len(b)), n - 1, version)

\* C21 as claimed: the tag Build returns for a store parsed from a version 2
\* tag is a version 4 tag, whose frames have 4-byte ids, 4-byte lengths and
\* two flag bytes each.
C21_RebuildAsV4 ==
    (last.op = "Build" /\ last.out # <<>> /\ Version(M) = 2) =>
        /\ last.out[4] = 4
        /\ Walk(SubSeq(last.out, 11, Len(last.out)), Len(frames), 4)

\* C21, corrected: Build has no target version; the tag it returns has the
\* major version of the tag that was parsed and its frames are laid out for
\* that version: for a version 2 tag 3-byte ids, 3-byte lengths and no flag
\* bytes, for versions 3 and 4 4-byte ids, 4-byte lengths and two flag bytes.
C21_RebuildKeepsVersion ==
    (last.op = "Build" /\ last.out # <<>>) =>
        /\ last.out[4] = stream[4]
        /\ \A i \in 1..Len(frames) : Len(frames[i].id) = idWidth(stream[4])
        /\ Walk(SubSeq(last.out, 11, Len(last.out)), Len(frames), stream[4])

\* Build returned a tag for the three frames parsed from a version 2 tag.
C21_Witness ==
    /\ last.op = "Build"
    /\ last.out # <<>>
    /\ stream[4] = 2
    /\ Len(frames) = 3
    /\ sets = 0

\* ------------------------------------------------------ the parser's inputs
\* A 10-byte header declaring n bytes of tag, n below 2^21.
HdrN(version, flags, n) ==
    Magic \o <<version, 0, flags, 0, (n \div 16384) % 128, (n \div 128) % 128, n % 128>>

\* The length field of a frame on the wire for a payload of n bytes, n below
\* 256 for version 2 and below 16384 otherwise.
LenField(version, n) ==
    IF version = 2 THEN <<0, 0, n>>
    ELSE IF version = 3 THEN <<0, 0, n \div 256, n % 256>>
    ELSE <<0, 0, n \div 128, n % 128>>

\* A frame as the maker of a file describes it: its id for versions 3 and 4
\* and for version 2, its two flag bytes, its payload on the wire and the
\* text the payload stands for.
Item(id4, id3, flagHi, flagLo, payload, value) ==
    [id4 |-> id4, id3 |-> id3, flagHi |-> flagHi, flagLo |-> flagLo,
     payload |-> payload, value |-> value]

\* The id under which an item is stored in a tag of the version.
ItemId(version, it) == IF version = 2 THEN it.id3 ELSE it.id4

\* One item on the wire.
WireItem(version, it) ==
    ItemId(version, it) \o LenField(version, Len(it.payload))
    \o (IF version = 2 THEN <<>> ELSE <<it.flagHi, it.flagLo>>)
    \o it.payload

RECURSIVE WireItems(_, _)
\* A sequence of items on the wire.
WireItems(version, items) ==
    IF items = <<>> THEN <<>>
    ELSE WireItem(version, Head(items)) \o WireItems(version, Tail(items))

\* ASCII text as UTF-16 code units in the byte order given.
Utf16(text, bigEndian) ==
    [i \in 1..(2 * Len(text)) |->
        IF bigEndian
        THEN (IF i % 2 = 1 THEN 0 ELSE text[i \div 2])
        ELSE (IF i % 2 = 1 THEN text[(i + 1) \div 2] ELSE 0)]

\* "Hello" and "Hi".
Hello == <<72, 101, 108, 108, 111>>
Hi == <<72, 105>>

\* The i-th plain text item: ids "TE0i" and "T0i", UTF-8 text of one letter.
Plain(i) ==
    Item(<<84, 69, 48, 48 + i>>, <<84, 48, 48 + i>>, 0, 0,
         <<3, 64 + i, 0>>, <<64 + i>>)

\* Text items in every encoding of the wire, each with the UTF-8 text it
\* stands for: ISO-8859-1 with and without NUL and with a high byte; UTF-8
\* with one NUL, without, with two, and starting with a byte 3; UTF-16 with
\* either BOM, with a NUL code unit at the end, with U+00E9; UTF-16 big-endian
\* without BOM, plain and with the surrogate pair of U+1F600.
TextItems ==
    << Item(<<84, 73, 84, 49>>, <<84, 84, 49>>, 0, 0, <<0, 88>>, <<88>>),
       Item(<<84, 73, 84, 50>>, <<84, 84, 50>>, 0, 0, <<0, 88, 0>>, <<88>>),
       Item(<<84, 73, 84, 51>>, <<84, 84, 51>>, 0, 0, <<0, 233>>, <<233>>),
       Item(<<84, 65, 76, 66>>, <<84, 65, 76>>, 0, 0, <<3, 89, 0>>, <<89>>),
       Item(<<84, 80, 69, 49>>, <<84, 80, 49>>, 0, 0, <<3, 90>>, <<90>>),
       Item(<<84, 80, 69, 50>>, <<84, 80, 50>>, 0, 0, <<3, 3, 86>>, <<3, 86>>),
       Item(<<84, 67, 79, 78>>, <<84, 67, 79>>, 0, 0,
            <<1, 255, 254>> \o Utf16(Hello, FALSE), Hello),
       Item(<<84, 67, 79, 77>>, <<84, 67, 77>>, 0, 0,
            <<1, 254, 255>> \o Utf16(Hello, TRUE), Hello),
       Item(<<84, 68, 65, 84>>, <<84, 68, 65>>, 0, 0,
            <<1, 255, 254>> \o Utf16(Hi, FALSE) \o <<0, 0>>, Hi),
       Item(<<84, 68, 69, 83>>, <<84, 68, 83>>, 0, 0,
            <<1, 255, 254, 233, 0>>, <<195, 169>>),
       Item(<<84, 89, 69, 82>>, <<84, 89, 69>>, 0, 0,
            <<2>> \o Utf16(Hello, TRUE), Hello),
       Item(<<84, 69, 78, 67>>, <<84, 69, 78>>, 0, 0,
            <<2, 216, 61, 222, 0>>, <<240, 159, 152, 128>>) >>

\* A UTF-8 payload that ends in two NUL bytes, with the text before them.
TwoNulItem ==
    Item(<<84, 88, 88, 88>>, <<84, 88, 88>>, 0, 0, <<3, 87, 0, 0>>, <<87>>)

\* A UTF-8 item of MaxValue bytes of text: its payload takes MaxValue+2 bytes.
LongItem ==
    Item(<<84, 76, 79, 78>>, <<84, 76, 71>>, 0, 0,
         <<3>> \o [i \in 1..MaxValue |-> 65] \o <<0>>, [i \in 1..MaxValue |-> 65])

\* Plain(i) with the flag bytes given.
Flagged(i, flagHi, flagLo) ==
    [Plain(i) EXCEPT !.flagHi = flagHi, !.flagLo = flagLo]

\* Items some of which are flagged compressed (0x08), encrypted (0x04) or
\* both in the second flag byte, others in the first byte or in other bits.
FlagItems ==
    << Flagged(1, 0, 4), Plain(2), Flagged(3, 0, 8), Flagged(4, 12, 0),
       Flagged(5, 0, 243), Flagged(6, 0, 12), Plain(7) >>

\* An input of the parser: the version and flag byte of the header, the
\* bytes of the extended header, the items that follow it, and the bytes
\* between the last item and the end of the tag.
Case(version, flags, ext, items, junk) ==
    [v |-> version, flags |-> flags, ext |-> ext, items |-> items, junk |-> junk]

\* The bytes of the tag of a case.
TagOf(c) ==
    HdrN(c.v, c.flags, Len(c.ext) + Len(WireItems(c.v, c.items)) + Len(c.junk))
    \o c.ext \o WireItems(c.v, c.items) \o c.junk

\* The first n plain items.
Plains(n) == [i \in 1..n |-> Plain(i)]

\* Frame ids readID refuses: lower case, '-', ':', '[' and NUL bytes.
BadIds(version) ==
    IF version = 2
    THEN { <<116, 116, 50>>, <<84, 45, 50>>, <<84, 58, 50>>, <<84, 84, 91>>, <<0, 0, 0>> }
    ELSE { <<116, 105, 116, 50>>, <<84, 45, 84, 50>>, <<84, 58, 84, 50>>,
           <<84, 73, 84, 91>>, <<0, 0, 0, 0>> }

\* A well-formed frame of the version, put after the place where the parser
\* is to stop.
After(version) == WireItem(version, Plain(9))

\* Cases whose frame after the first n items has an id readID refuses and is
\* followed by a well-formed frame; zero padding is the NUL id.
BadIdCases ==
    UNION { { Case(v, 0, <<>>, Plains(n),
                   id \o SubSeq(After(v), idWidth(v) + 1, Len(After(v))) \o After(v))
              : id \in BadIds(v), n \in {0, 2} } : v \in Versions }

\* What may follow the last item when a frame's length is wrong: a frame that
\* declares 9 bytes and has 2, a frame of length 0 before a well-formed one,
\* and a frame header cut in its length field.
BadLenJunk(version) ==
    { FrCut(version, TALB, TAL, 9, <<3, 89>>),
      FrCut(version, TALB, TAL, 0, <<>>) \o After(version),
      ItemId(version, Plain(8)) \o <<0, 0>> }

BadLenCases ==
    UNION { { Case(v, 0, <<>>, Plains(n), j) : j \in BadLenJunk(v), n \in {0, 2} }
            : v \in Versions }

\* Cases about the flag bytes of frames: the flagged items, and a flagged
\* frame that declares more bytes than the tag has left.
FlagCases ==
    UNION { { Case(v, 0, <<>>, FlagItems, <<>>),
              Case(v, 0, <<>>, <<Plain(1)>>,
                   ItemId(v, Plain(8)) \o LenField(v, 9)
                   \o (IF v = 2 THEN <<>> ELSE <<0, 4>>) \o <<3, 89>>) }
            : v \in Versions }

\* Cases about text: every text item in one tag, the payload with two NUL
\* bytes, and the long item.
TextCases ==
    UNION { { Case(v, 0, <<>>, TextItems, <<>>),
              Case(v, 0, <<>>, <<Plain(1), TwoNulItem>>, <<>>),
              Case(v, 0, <<>>, <<LongItem, Plain(2)>>, <<>>) }
            : v \in Versions }

\* An extended header of e bytes, e >= 4: its length field and then bytes
\* that read as a well-formed frame where they are long enough.
ExtOf(version, e) ==
    <<0, 0, e \div 128, e % 128>>
    \o SubSeq(WireItem(version, LongItem) \o WireItem(version, LongItem), 1, e - 4)

\* Cases whose header has flag 0x40: extended headers of 4, 6, 15 and
\* MaxValue+4 bytes before two items; the same flag on a version 2 tag,
\* where no extended header follows.
ExtCases ==
    UNION { { Case(v, 64, IF v = 2 THEN <<>> ELSE ExtOf(v, e), Plains(2), <<>>)
              : e \in {4, 6, 15, MaxValue + 4} } : v \in Versions }

\* Cases whose extended header is malformed: a declared length below 4, one
\* beyond the end of the tag, and a length field cut short by the end of the
\* tag.  What follows the length field is in junk.
BadExtCases ==
    UNION { { Case(v, 64, <<0, 0, 0, e>>, <<>>, WireItems(v, Plains(2)))
              : e \in {0, 3, 100} }
            \cup { Case(v, 64, <<0, 0>>, <<>>, <<>>) } : v \in {3, 4} }

ParseCases ==
    BadIdCases \cup BadLenCases \cup FlagCases \cup TextCases \cup ExtCases
    \cup BadExtCases

\* The stream of each case: its tag and the start of the audio data.
CaseStream == [c \in ParseCases |-> TagOf(c) \o Audio]

\* The case the stream of the state was made from.
CaseOf == CHOOSE c \in ParseCases : CaseStream[c] = stream

\* A new Meta and a stream that starts with the tag of a case.
InitParse ==
    /\ stream \in { CaseStream[c] : c \in ParseCases }
    /\ supplied = 0
    /\ consumed = 0
    /\ ret = [op |-> "none", n |-> 0, err |-> "nil"]
    /\ buffer = NewMeta.buffer
    /\ alloc = NewMeta.alloc
    /\ buffered = NewMeta.buffered
    /\ noMeta = NewMeta.noMeta
    /\ readFrames = NewMeta.readFrames
    /\ frames = NewMeta.frames
    /\ parses = 0
    /\ noTag = FALSE
    /\ sets = 0
    /\ crashed = FALSE
    /\ ep = NoEpisode
    /\ sink = <<>>
    /\ copy = "run"
    /\ last = NoCall
    /\ NoSync

\* The user writes the stream and reads the store, without changing it.
NextParse ==
    \/ \E k \in 1..(MaxChunk + Len(stream)) : StoreWrite(k)
    \/ StoreBuild
    \/ \E id \in GetIds : StoreGetValues(id)

SpecParse == InitParse /\ [][NextParse]_vars

\* The whole tag and at least one byte after it have been handed to Write.
PastTag == HasTag /\ supplied > Total

\* ------------------------------------------------------------ C22
\* C22 as claimed: whatever the stream and its chunking, no Write call and no
\* parse it triggers crashes, and every frame of the list has an id of the
\* width of the tag's version made of characters in [0-9A-Z].
C22_ParseNeverCrashes ==
    /\ ~crashed
    /\ \A i \in 1..Len(frames) :
           Len(frames[i].id) = idWidth(stream[4]) /\ ValidId(frames[i].id)

\* ------------------------------------------------------------ C23
\* The items of a case that the parser is to keep: all of them in a version
\* 2 tag, elsewhere those without bit 0x04 and 0x08 in the second flag byte.
Kept(c) == SelectSeq(c.items, LAMBDA it : c.v = 2 \/ BitAnd(it.flagLo, 12) = 0)

\* b ends with a NUL byte.
EndsWithNul(b) == Len(b) > 0 /\ b[Len(b)] = 0

\* b is a followed by NUL bytes only.
PaddedWithNuls(a, b) ==
    /\ Len(a) <= Len(b)
    /\ SubSeq(b, 1, Len(a)) = a
    /\ \A i \in (Len(a) + 1)..Len(b) : b[i] = 0

\* C23 as claimed: once the tag has been parsed, the value stored for every
\* payload that starts with a marker 0x00-0x03 does not end with a NUL byte,
\* and for the markers 0x00 and 0x03 it is the payload after the marker up to
\* its trailing NUL bytes.
C23_NoMarkerNoNul ==
    PastTag =>
        \E k \in {Kept(CaseOf)} :
            /\ Len(frames) = Len(k)
            /\ \A i \in 1..Len(k) :
                   k[i].payload[1] \in 0..3 =>
                       /\ ~EndsWithNul(frames[i].value)
                       /\ k[i].payload[1] \in {0, 3} =>
                              PaddedWithNuls(frames[i].value, Tail(k[i].payload))

\* C23, corrected: exactly one trailing NUL byte is removed.  For the markers
\* 0x00 and 0x03 the stored value is the payload after the marker, less its
\* last byte if that is NUL; for the markers 0x01 and 0x02 it is the UTF-8
\* text the payload stands for; so a stored value ends with a NUL byte only
\* when the payload had more than one at its end.
C23_MarkerAndOneNul ==
    PastTag =>
        \E k \in {Kept(CaseOf)} :
            /\ Len(frames) = Len(k)
            /\ \A i \in 1..Len(k) :
                   \E pl \in {Tail(k[i].payload)} :
                       /\ k[i].payload[1] \in {0, 3} =>
                              frames[i].value \o (IF EndsWithNul(pl) THEN <<0>> ELSE <<>>) = pl
                       /\ k[i].payload[1] \in {1, 2} => frames[i].value = k[i].value
                       /\ (k[i].payload[1] \in 0..3 /\ EndsWithNul(frames[i].value)) =>
                              Len(pl) >= 2 /\ pl[Len(pl) - 1] = 0

\* A tag whose second frame has a UTF-8 payload ending in two NUL bytes has
\* been parsed, and the value stored for it ends with one of them.
C23_Witness ==
    /\ PastTag
    /\ CaseOf.items = <<Plain(1), TwoNulItem>>
    /\ Len(frames) = 2
    /\ frames[2].value = <<87, 0>>

\* ------------------------------------------------------------ C24
\* The payload starts with the marker 0x01 and a BOM.
HasBOM(payload) ==
    /\ Len(payload) >= 3
    /\ payload[1] = 1
    /\ <<payload[2], payload[3]>> \in { <<255, 254>>, <<254, 255>> }

\* C24: once the tag has been parsed, the value stored for a payload with
\* marker 0x01 and a BOM, in either byte order, and for a payload with marker
\* 0x02, read big-endian, is the UTF-8 text the payload stands for; the
\* payload 01 FF FE and "Hello" in UTF-16LE is stored as "Hello".
C24_Utf16Decoded ==
    PastTag =>
        \E k \in {Kept(CaseOf)} :
            /\ Len(frames) = Len(k)
            /\ \A i \in 1..Len(k) :
                   /\ (HasBOM(k[i].payload) \/ k[i].payload[1] = 2) =>
                          frames[i] = Frame(ItemId(stream[4], k[i]), k[i].value)
                   /\ k[i].payload = <<1, 255, 254, 72, 0, 101, 0, 108, 0, 108, 0, 111, 0>> =>
                          frames[i].value = <<72, 101, 108, 108, 111>>

\* A version 3 tag holding the text items has been parsed: "Hello" was read
\* from UTF-16 with either BOM and from big-endian UTF-16 without BOM.
C24_Witness ==
    /\ PastTag
    /\ stream[4] = 3
    /\ CaseOf.items = TextItems
    /\ Len(frames) = 12
    /\ frames[7].value = Hello
    /\ frames[8].value = Hello
    /\ frames[11].value = Hello

\* ------------------------------------------------- the Episode's own tags
\* Tag bodies for addFrames to work on: no frame at all; two album frames, an
\* artist, a comment, a title and a genre; an album artist, a track number
\* and an image.
AddBodies(v) ==
    { <<>>,
      Fr(v, TALB, TAL, 0, <<3, 111, 0>>) \o Fr(v, TPE1, TP1, 0, <<3, 80, 0>>)
          \o Fr(v, TALB, TAL, 0, <<3, 112, 0>>) \o Fr(v, COMM, COM, 0, <<3, 99, 0>>)
          \o Fr(v, TIT2, TT2, 0, <<3, 116, 0>>) \o Fr(v, TCON, TT1, 0, <<3, 71, 0>>),
      Fr(v, TPE2, TP2, 0, <<3, 81, 0>>) \o Fr(v, TRCK, TRK, 0, <<3, 55, 0>>)
          \o Fr(v, APIC, PIC, 0, <<0, 1, 2>>) }

AddStreams ==
    UNION { { Hdr(v, 0, Len(b)) \o b \o Audio : b \in AddBodies(v) } : v \in Versions }

\* Download up to io.Copy, for a file that starts with one of these tags.
InitAdd ==
    /\ stream \in AddStreams
    /\ supplied = 0
    /\ consumed = 0
    /\ ret = [op |-> "none", n |-> 0, err |-> "nil"]
    /\ buffer = NewMeta.buffer
    /\ alloc = NewMeta.alloc
    /\ buffered = NewMeta.buffered
    /\ noMeta = NewMeta.noMeta
    /\ readFrames = NewMeta.readFrames
    /\ frames = NewMeta.frames
    /\ parses = 0
    /\ noTag = FALSE
    /\ sets = 0
    /\ crashed = FALSE
    /\ ep \in Episodes
    /\ sink = <<>>
    /\ copy = "run"
    /\ last = NoCall
    /\ NoSync

SpecAdd == InitAdd /\ [][NextEpisode]_vars

\* ------------------------------------------------------------ C25
\* The ids of the show title and the episode title for the stream's version.
AlbumId == IF stream[4] = 2 THEN TAL ELSE TALB
TitleId == IF stream[4] = 2 THEN TT2 ELSE TIT2
\* The id of the image frame for the stream's version.
ImageId == IF stream[4] = 2 THEN PIC ELSE APIC

\* The frames parsed from the tag of the stream, before addFrames.
Parsed ==
    CHOOSE out \in { Buffered(m0).m.frames :
                     m0 \in {NewMetaOf(SubSeq(stream, 1, Total))} } : TRUE

\* The frames of list that are neither the show title nor the episode title.
Others(list) == SelectSeq(list, LAMBDA f : f.id \notin {AlbumId, TitleId})

\* The values the table of addFrames holds under id for the stream's version.
TableValues(id) ==
    { FrameTable(ep)[i].value : i \in
        { j \in 1..Len(FrameTable(ep)) :
            id = (CASE stream[4] = 2 -> FrameTable(ep)[j].idv2
                    [] stream[4] = 3 -> FrameTable(ep)[j].idv3
                    [] OTHER -> FrameTable(ep)[j].idv4) } }

\* Episode.Write has written a tag to the file: addFrames and Build have run.
AddFramesRan ==
    ep.active /\ ~crashed /\ HasTag /\ Len(sink) >= 3 /\ SubSeq(sink, 1, 3) = Magic

\* C25: after addFrames, the frames other than the two titles are the parsed
\* ones, unchanged and in order, followed by added ones; each added frame has
\* an id of the table (or the image id) for which nothing was parsed and the
\* non-empty value the feed gives for it; and the show title id and the
\* episode title id each have exactly one frame, holding the feed's value.
C25_AddFramesPreserves ==
    AddFramesRan =>
        \E old \in {Others(Parsed)} : \E new \in {Others(frames)} :
            /\ Len(new) >= Len(old)
            /\ SubSeq(new, 1, Len(old)) = old
            /\ \A i \in (Len(old) + 1)..Len(new) :
                   /\ Matching(Parsed, new[i].id) = <<>>
                   /\ new[i].value # <<>>
                   /\ \/ new[i].value \in TableValues(new[i].id)
                      \/ new[i].id = ImageId /\ new[i].value = ep.image
            /\ Matching(frames, AlbumId) = <<ep.showTitle>>
            /\ Matching(frames, TitleId) = <<ep.Title>>

\* addFrames has run on a tag that had two show titles and an artist, for an
\* episode whose feed names an artist too.
C25_Witness ==
    /\ AddFramesRan
    /\ ep.showArtist # <<>>
    /\ Len(Matching(Parsed, AlbumId)) = 2
    /\ Matching(Parsed, IF stream[4] = 2 THEN TP1 ELSE TPE1) # <<>>
    /\ Len(frames) > Len(Parsed)

\* ------------------------------------------------------------ C26
\* The frames the store is to hold for a sequence of items, in order.
FramesOfItems(version, items) ==
    [i \in 1..Len(items) |-> Frame(ItemId(version, items[i]), items[i].value)]

\* C26: when the frame after the first k-1 frames of a complete tag has an
\* id with a byte outside [0-9A-Z] (NUL padding included), then once the tag
\* has been written the store holds exactly those k-1 frames in order and
\* nothing of what follows, the tag is complete, nothing crashed and Write
\* returned its end-of-tag result.
C26_StopsAtBadId ==
    (PastTag /\ CaseOf \in BadIdCases) =>
        /\ ~crashed
        /\ Complete
        /\ ret.err = "EOF"
        /\ frames = FramesOfItems(stream[4], CaseOf.items)

\* A tag whose third frame has a lower-case id has been parsed and the store
\* holds the two frames before it.
C26_Witness ==
    /\ PastTag
    /\ CaseOf \in BadIdCases
    /\ CaseOf.junk[1] = 116
    /\ Len(frames) = 2
    /\ buffered

\* ------------------------------------------------------------ C27
\* C27: when the frame after the first frames of a complete tag declares
\* more bytes than the tag has left, or a length of 0, or its length field is
\* cut short, then once the tag has been written the store holds exactly the
\* frames before it, unchanged and in order, nothing of what follows, the tag
\* is complete, nothing crashed and Write returned its end-of-tag result.
C27_StopsAtBadLength ==
    (PastTag /\ CaseOf \in BadLenCases) =>
        /\ ~crashed
        /\ Complete
        /\ ret.err = "EOF"
        /\ frames = FramesOfItems(stream[4], CaseOf.items)
        /\ GetValues(M, ItemId(stream[4], Plain(9))).out = <<>>

\* A tag whose third frame declares 9 bytes where 2 are left has been parsed
\* and the store holds the two frames before it.
C27_Witness ==
    /\ PastTag
    /\ CaseOf \in BadLenCases
    /\ CaseOf.junk = FrCut(stream[4], TALB, TAL, 9, <<3, 89>>)
    /\ Len(frames) = 2
    /\ buffered

\* ------------------------------------------------------------ C28
\* C28: once a tag of version 3 or 4 has been parsed, the store holds its
\* frames without those that have bit 0x04 or 0x08 in the second flag byte,
\* in order, the frames that follow a left-out frame included; of the seven
\* flagged items that is the second, fourth, fifth and seventh.  A version 2
\* tag has no flag bytes and all its frames are stored.
C28_FlaggedFramesSkipped ==
    (PastTag /\ CaseOf \in FlagCases) =>
        /\ frames = FramesOfItems(stream[4], Kept(CaseOf))
        /\ CaseOf.items = FlagItems =>
               [i \in 1..Len(frames) |-> frames[i].value] =
                   IF stream[4] = 2
                   THEN << <<65>>, <<66>>, <<67>>, <<68>>, <<69>>, <<70>>, <<71>> >>
                   ELSE << <<66>>, <<68>>, <<69>>, <<71>> >>

\* A version 4 tag with the seven flagged items has been parsed and four of
\* them are in the store.
C28_Witness ==
    /\ PastTag
    /\ stream[4] = 4
    /\ CaseOf.items = FlagItems
    /\ Len(frames) = 4
    /\ frames[4].value = <<71>>

\* ------------------------------------------------------------ C29
\* E: the four bytes after the header of the stream read as 7 bits each.
ExtLen == stream[11] * 2097152 + stream[12] * 16384 + stream[13] * 128 + stream[14]

\* The offset at which the claim has frame parsing begin.
FrameStart == IF stream[4] = 2 THEN 10 ELSE 10 + ExtLen

\* C29: for a tag whose header flag byte is 0x40, once it has been parsed the
\* store holds the frames that start at offset 10 + E when the version is not
\* 2 and the extended header's length field is there and says E >= 4 (no
\* frame when 10 + E is beyond the tag), and the frames that start at offset
\* 10 when the version is 2.
C29_ParseStartsAfterExt ==
    (PastTag /\ stream[6] = 64 /\ (stream[4] = 2 \/ (Total >= 14 /\ ExtLen >= 4))) =>
        IF FrameStart >= Total THEN frames = <<>>
        ELSE /\ SubSeq(stream, FrameStart + 1, Total)
                    = WireItems(stream[4], CaseOf.items) \o CaseOf.junk
             /\ frames = FramesOfItems(stream[4], CaseOf.items)

\* A version 3 tag with an extended header of 15 bytes, whose bytes read as
\* the start of a frame, has been parsed and the store holds the two frames
\* after it.
C29_Witness ==
    /\ PastTag
    /\ stream[4] = 3
    /\ stream[6] = 64
    /\ ExtLen = 15
    /\ Len(frames) = 2
    /\ frames[1].id = <<84, 69, 48, 49>>

\* ------------------------------------------------------------ C30
\* n in four bytes of 7 bits each, and in four bytes of 8 bits each,
\* big-endian.
Packed7(n) == <<(n \div 2097152) % 128, (n \div 16384) % 128, (n \div 128) % 128, n % 128>>
Packed8(n) == <<(n \div 16777216) % 256, (n \div 65536) % 256, (n \div 256) % 256, n % 256>>

\* Lengths on both sides of each byte boundary of either packing.
LenSamples == {1, 127, 128, 255, 256, 16383, 16384, 65536, 2097152, 268435455}

\* C30: ids are 3 bytes wide for version 2 and 4 otherwise; for lengths on
\* both sides of the byte boundaries writeLen gives, and readLen reads back,
\* four bytes of 7 bits for a header length in every version and for a
\* version 4 frame length, and four bytes of 8 bits for a version 3 frame
\* length; and the tag Build returns for the long item has its header length
\* and the frame's length in these packings, after the tag was parsed with
\* them.
C30_WidthsAndPacking ==
    /\ idWidth(2) = 3 /\ idWidth(3) = 4 /\ idWidth(4) = 4
    /\ Len(readID(<<84, 73, 84, 50, 0>>, 2)) = 3
    /\ Len(readID(<<84, 73, 84, 50, 0>>, 3)) = 4
    /\ Len(readID(<<84, 73, 84, 50, 0>>, 4)) = 4
    /\ \A n \in LenSamples \cup {Len(stream), Len(last.out)} :
           /\ \A v \in Versions :
                  /\ writeLen(n, v, TRUE) = Packed7(n)
                  /\ readLen(Packed7(n) \o <<1>>, v, TRUE) = n
           /\ writeLen(n, 4, FALSE) = Packed7(n)
           /\ readLen(Packed7(n) \o <<1>>, 4, FALSE) = n
           /\ writeLen(n, 3, FALSE) = Packed8(n)
           /\ readLen(Packed8(n) \o <<1>>, 3, FALSE) = n
    /\ (last.op = "Build" /\ last.out # <<>> /\ stream[4] # 2
           /\ CaseOf.items = <<LongItem, Plain(2)>>) =>
           /\ frames = FramesOfItems(stream[4], CaseOf.items)
           /\ Len(last.out) > 137
           /\ SubSeq(last.out, 7, 10) = Packed7(Len(last.out) - 10)
           /\ SubSeq(last.out, 15, 18)
                  = (IF stream[4] = 3 THEN Packed8(MaxValue + 2) ELSE Packed7(MaxValue + 2))

\* Build returned the tag of a version 3 store parsed from a tag whose first
\* frame has a length of 128 or more.
C30_Witness ==
    /\ last.op = "Build"
    /\ stream[4] = 3
    /\ CaseOf.items = <<LongItem, Plain(2)>>
    /\ Len(last.out) > 137
    /\ last.out[18] >= 128

\* ------------------------------------------------------------ C31
\* n in three bytes of 8 bits each, big-endian.
Packed24(n) == <<(n \div 65536) % 256, (n \div 256) % 256, n % 256>>

\* C31 as claimed: a version 2 frame length is three bytes of 8 bits each:
\* writeLen gives them and readLen reads them back, for lengths on both sides
\* of the byte boundaries and for the lengths that occur in the run; and in
\* the version 2 tag Build returns for the long item the first frame's length
\* field holds MaxValue+2 in this packing.
C31_V2LengthsPlain ==
    /\ \A n \in {1, 127, 128, 255, 256, 65535, 65536, 16777215}
                \cup {Len(stream), Len(last.out)} :
           /\ writeLen(n, 2, FALSE) = Packed24(n)
           /\ readLen(Packed24(n) \o <<1>>, 2, FALSE) = n
    /\ (last.op = "Build" /\ last.out # <<>> /\ stream[4] = 2
           /\ CaseOf.items = <<LongItem, Plain(2)>>) =>
           SubSeq(last.out, 14, 16) = Packed24(MaxValue + 2)

\* ------------------------------------------------------------ C32
\* The value of four bytes with the high bit of each one ignored.
Low7(b) == (b[1] % 128) * 2097152 + (b[2] % 128) * 16384
               + (b[3] % 128) * 128 + (b[4] % 128)

\* C32 as claimed: readLen in synch-safe mode (a header length of any
\* version, a version 4 frame length) ignores the high bit of every byte: for
\* four bytes with and without high bits set, and for every four consecutive
\* bytes of the stream, it returns the value of the low 7 bits of each.
C32_HighBitIgnored ==
    \A b \in { <<0, 0, 0, 127>>, <<0, 0, 0, 128>>, <<0, 0, 0, 255>>,
               <<0, 0, 129, 0>>, <<1, 2, 3, 4>>, <<0, 128, 0, 1>> }
               \cup { SubSeq(stream, i, i + 3) : i \in 1..(Len(stream) - 3) } :
        /\ \A v \in Versions : readLen(b \o <<1>>, v, TRUE) = Low7(b)
        /\ readLen(b \o <<1>>, 4, FALSE) = Low7(b)

\* ------------------------------------------------------------ C33
\* The number of values a length field holds as writeLen packs it: four
\* bytes of 8 bits for a version 3 frame (capped at what the model's
\* integers hold), three bytes of 7 bits for a version 2 frame, four bytes
\* of 7 bits otherwise.
Capacity(v, h) ==
    IF v = 3 /\ ~h THEN 2147483647
    ELSE IF v = 2 /\ ~h THEN 2097152
    ELSE 268435456

\* Lengths at both ends of every field and on both sides of the byte
\* boundaries.
InverseSamples ==
    LenSamples \cup {0, 2097151, 2097153, 268435456, 268435583, 2147483646}

C34_NoTagForwarded ==
    (Len(stream) >= 3 /\ SubSeq(stream, 1, 3) # Magic) =>
        /\ copy # "failed"
        /\ ret.err = "nil"
        /\ consumed = supplied
        /\ sink = SubSeq(stream, 1, Len(sink))
        /\ copy = "done" => sink = stream

NextLive ==
    \/ \E k \in 1..(MaxChunk + Len(stream)) : CallWrite(k)
    \/ CallBuffered

\* io.Copy does not stop while the reader has bytes left: a Write call that
\* stays possible is made.
SpecLive ==
    /\ Init
    /\ [][NextLive]_vars
    /\ WF_vars(\E k \in 1..(MaxChunk + Len(stream)) : CallWrite(k))

\* C36 as claimed: for a stream that starts with a well-formed header
\* declaring L and holds at least L+10 bytes, the Meta is Complete after
\* finitely many Write calls; for a stream with a well-formed header and
\* fewer than L+10 bytes it never is, every Write call taking its whole chunk
\* with a nil error.
C36_EventuallyComplete ==
    /\ HasTag ~> Complete
    /\ []((WellFormed /\ Len(stream) < Total) =>
              /\ ~Complete
              /\ ret.err = "nil"
              /\ consumed = supplied)

\* ------------------------------------------------------------ C37
\* C37 as claimed: after SetValue(id, v, multiple) with an id of the
\* version's width on a complete tag, GetValues called with the id as passed
\* returns a list whose last element is v.
C37_ReadYourWrites ==
    [][ SetAccepted =>
            \E r \in {GetValues(M', last'.id)} :
                r.out # <<>> /\ r.out[Len(r.out)] = last'.value ]_vars

\* C37 amended: the same with GetValues called with the id in upper case,
\* which is the id SetValue stores.
C37_ReadYourWritesUpper ==
    [][ SetAccepted =>
            \E r \in {GetValues(M', ToUpper(last'.id))} :
                r.out # <<>> /\ r.out[Len(r.out)] = last'.value ]_vars

\* SetValue(id, v, true) with a lower-case id added a value to a parsed tag
\* that had a frame of that id: GetValues with the upper-cased id returns the
\* old value and then v, and nothing for the id as passed.
C37_Witness ==
    /\ last.op = "SetValue"
    /\ last.multiple
    /\ last.id = <<116, 105, 116, 50>>
    /\ Len(GetValues(M, TIT2).out) = 2
    /\ GetValues(M, TIT2).out[2] = last.value
    /\ GetValues(M, TIT2).out[1] # last.value
    /\ GetValues(M, last.id).out = <<>>

\* ------------------------------------------------------------ Show.Sync
\* The number of download attempts per episode.
Tries == 3

\* The longest feed.
MaxFeed == 3

\* What xml.Unmarshal gives for a feed of n episodes, newest first: titles
\* and numbers n..1, no season.
FeedOf(n) == [i \in 1..n |-> [Title |-> n + 1 - i, Season |-> 0, Number |-> n + 1 - i]]

\* The feeds: none to MaxFeed episodes without a season, and one of two
\* episodes of season 1.
Feeds ==
    { FeedOf(n) : n \in 0..MaxFeed }
        \cup { <<[Title |-> 12, Season |-> 1, Number |-> 2],
                 [Title |-> 11, Season |-> 1, Number |-> 1]>> }

\* The -n argument split at "-": nothing, an episode, a season and an
\* episode, an episode the feed does not have, a part that is no number
\* (-1), and three parts.
Specifics == { <<>>, <<2>>, <<1, 2>>, <<9>>, <<-1>>, <<1, -1>>, <<1, 2, 3>> }

\* The results of Episode.Download.
DownloadErrs == {"nil", "errDownload", "other", "ENOSPC"}

RECURSIVE reverseFrom(_, _)
\* The loop that reverses s.Episodes: for i < length/2, swap elements i and
\* length-1-i (counted from 0).
reverseFrom(episodes, i) ==
    LET len == Len(episodes)
    IN  IF i >= len \div 2 THEN episodes
        ELSE reverseFrom([episodes EXCEPT ![i + 1] = episodes[len - i],
                                          ![len - i] = episodes[i + 1]], i + 1)

\* findSpecific: the first episode with the season and number specified.
findSpecific(episodes, specified) ==
    LET none == [found |-> FALSE, ep |-> <<>>]
        search(season, number) ==
            LET idx == { i \in 1..Len(episodes) :
                           episodes[i].Season = season /\ episodes[i].Number = number }
            IN  IF idx = {} THEN none
                ELSE [found |-> TRUE,
                      ep |-> episodes[CHOOSE i \in idx : \A k \in idx : i <= k]]
    IN  IF specified = <<>> THEN none
        ELSE IF Len(specified) = 1
             THEN IF specified[1] < 0 THEN none ELSE search(0, specified[1])
        ELSE IF Len(specified) = 2
             THEN IF specified[1] < 0 \/ specified[2] < 0 THEN none
                  ELSE search(specified[1], specified[2])
        ELSE none

\* Show.filter: the episodes to download, or the error of the walk through
\* the show's directory; have holds the titles of the files found there.
filter(episodes, specified, have, walkErr) ==
    LET r == findSpecific(episodes, specified)
    IN  IF specified # <<>>
        THEN [Episodes |-> IF r.found THEN <<r.ep>> ELSE <<>>, err |-> "nil"]
        ELSE IF walkErr THEN [Episodes |-> episodes, err |-> "walk"]
        ELSE [Episodes |-> SelectSeq(episodes, LAMBDA e : e.Title \notin have),
              err |-> "nil"]

\* Sync returns (n, err).
syncReturn(sh, n, err) == [sh EXCEPT !.pc = "returned", !.n = n, !.err = err]

\* Sync from the parsed feed to the start of the download loop.
syncStart(sh) ==
    IF Len(sh.Episodes) = 0 THEN syncReturn(sh, 0, "No episodes found")
    ELSE LET reversed == reverseFrom(sh.Episodes, 0)
             f == filter(reversed, sh.specified, sh.have, sh.walkErr)
             s1 == [sh EXCEPT !.Episodes = f.Episodes]
         IN  IF f.err # "nil"
             THEN syncReturn([sh EXCEPT !.Episodes = reversed], 0, "Error selecting episodes")
             ELSE IF Len(f.Episodes) = 0
                  THEN IF sh.specified # <<>>
                       THEN syncReturn(s1, 0, "Episode not found")
                       ELSE syncReturn(s1, 0, "nil")
             ELSE [s1 EXCEPT !.pc = "loop", !.index = 1, !.j = 1, !.success = 0]

\* The episode loop moves on: break out of the attempts of this episode.
nextEpisode(sh) ==
    IF sh.index = Len(sh.Episodes) THEN syncReturn(sh, sh.success, "nil")
    ELSE [sh EXCEPT !.index = @ + 1, !.j = 1]

\* afterDownload that tries again after any error.
afterDownloadRetryAll(sh, err) ==
    LET s1 == [sh EXCEPT !.tried = Append(@, [ep |-> sh.Episodes[sh.index].Title,
                                              j |-> sh.j, err |-> err])]
    IN  IF err # "nil"
        THEN IF sh.j < Tries THEN [s1 EXCEPT !.j = @ + 1] ELSE nextEpisode(s1)
        ELSE nextEpisode([s1 EXCEPT !.success = @ + 1])

\* afterDownload that moves on to the next episode when the disk is full.
afterDownloadGoOn(sh, err) ==
    LET s1 == [sh EXCEPT !.tried = Append(@, [ep |-> sh.Episodes[sh.index].Title,
                                              j |-> sh.j, err |-> err])]
    IN  IF err = "errDownload"
        THEN IF sh.j < Tries THEN [s1 EXCEPT !.j = @ + 1] ELSE nextEpisode(s1)
        ELSE IF err # "nil" THEN nextEpisode(s1)
        ELSE nextEpisode([s1 EXCEPT !.success = @ + 1])

\* The body of the attempt loop after episode.Download returned err; tried
\* records the attempts made.
afterDownload(sh, err) ==
    LET s1 == [sh EXCEPT !.tried = Append(@, [ep |-> sh.Episodes[sh.index].Title,
                                              j |-> sh.j, err |-> err])]
    IN  IF err = "errDownload"
        THEN IF sh.j < Tries THEN [s1 EXCEPT !.j = @ + 1] ELSE nextEpisode(s1)
        ELSE IF err # "nil"
             THEN IF err = "ENOSPC"
                  THEN syncReturn(s1, s1.success, "No space left on disk, stopping process")
                  ELSE nextEpisode(s1)
        ELSE nextEpisode([s1 EXCEPT !.success = @ + 1])

\* Sync after xml.Unmarshal: s.Episodes is the feed, newest first.
InitSync ==
    /\ stream = <<>>
    /\ supplied = 0
    /\ consumed = 0
    /\ ret = [op |-> "none", n |-> 0, err |-> "nil"]
    /\ buffer = NewMeta.buffer
    /\ alloc = NewMeta.alloc
    /\ buffered = NewMeta.buffered
    /\ noMeta = NewMeta.noMeta
    /\ readFrames = NewMeta.readFrames
    /\ frames = NewMeta.frames
    /\ parses = 0
    /\ noTag = FALSE
    /\ sets = 0
    /\ crashed = FALSE
    /\ ep = NoEpisode
    /\ sink = <<>>
    /\ copy = "done"
    /\ last = NoCall
    /\ walk = NoWalk
    /\ DebugMode = FALSE
    /\ \E feed \in Feeds, specified \in Specifics, walkErr \in BOOLEAN :
       \E have \in SUBSET { feed[i].Title : i \in 1..Len(feed) } :
           show = [active |-> TRUE, pc |-> "parsed", feed |-> feed, Episodes |-> feed,
                   specified |-> specified, have |-> have, walkErr |-> walkErr,
                   index |-> 0, j |-> 0, success |-> 0, tried |-> <<>>,
                   n |-> 0, err |-> "nil"]

\* Sync runs from the parsed feed to the first download, or returns.
SyncStart ==
    /\ show.active
    /\ show.pc = "parsed"
    /\ show' = syncStart(show)
    /\ UNCHANGED <<metaVars, drvVars, epVars, crashed, last, walk, DebugMode>>

\* One attempt: episode.Download returns err.
SyncDownload(err) ==
    /\ show.active
    /\ show.pc = "loop"
    /\ show' = afterDownload(show, err)
    /\ UNCHANGED <<metaVars, drvVars, epVars, crashed, last, walk, DebugMode>>

NextSync ==
    \/ SyncStart
    \/ \E err \in DownloadErrs : SyncDownload(err)

SpecSync == InitSync /\ [][NextSync]_vars

\* ------------------------------------------------------------ C38
\* The position of the episode with this title in a list of episodes.
PosIn(episodes, title) == CHOOSE i \in 1..Len(episodes) : episodes[i].Title = title

\* The attempts made on the episode with this title, as positions of tried.
AttemptsOn(title) == { i \in 1..Len(show.tried) : show.tried[i].ep = title }

\* The titles of the episodes whose last attempt so far returned nil.
Synced ==
    { show.tried[i].ep : i \in { k \in 1..Len(show.tried) :
          /\ show.tried[k].err = "nil"
          /\ \A l \in AttemptsOn(show.tried[k].ep) : l <= k } }

\* Sync has reached the download loop.
Downloading == show.active /\ show.pc \in {"loop", "returned"} /\ show.index >= 1

\* C38: every selected episode is attempted at most 3 times; an attempt
\* follows another one on the same episode only when that one returned
\* errDownload, so any other error or a success ends the episode's attempts,
\* and Sync never comes back to an episode; the success counter is the number
\* of episodes whose last attempt returned nil and never exceeds the number
\* of selected episodes; and the episodes are attempted in the order of
\* s.Episodes, which is the reverse of the feed's order.
C38_RetriesAndCount ==
    Downloading =>
        /\ \A i \in 1..Len(show.tried) :
               /\ Cardinality(AttemptsOn(show.tried[i].ep)) <= 3
               /\ show.tried[i].j = Cardinality({ l \in AttemptsOn(show.tried[i].ep) : l <= i })
               /\ \E k \in 1..Len(show.Episodes) : show.Episodes[k].Title = show.tried[i].ep
        /\ \A i \in 2..Len(show.tried) :
               IF show.tried[i].ep = show.tried[i - 1].ep
               THEN show.tried[i - 1].err = "errDownload"
               ELSE PosIn(show.Episodes, show.tried[i].ep)
                        = PosIn(show.Episodes, show.tried[i - 1].ep) + 1
        /\ show.tried # <<>> => PosIn(show.Episodes, show.tried[1].ep) = 1
        /\ show.success = Cardinality(Synced)
        /\ show.success <= Len(show.Episodes)
        /\ (show.pc = "returned" /\ show.err = "nil") =>
               /\ show.n = show.success
               /\ \A k \in 1..Len(show.Episodes) : AttemptsOn(show.Episodes[k].Title) # {}
        /\ \A a, b \in 1..Len(show.Episodes) :
               a < b => PosIn(show.feed, show.Episodes[a].Title)
                            > PosIn(show.feed, show.Episodes[b].Title)

\* Sync returned after three episodes: three failed attempts on the oldest,
\* a success at the second attempt on the next, another error on the newest.
C38_Witness ==
    /\ show.active /\ show.pc = "returned" /\ show.err = "nil"
    /\ Len(show.Episodes) = 3
    /\ show.Episodes[1].Title = 1
    /\ [i \in 1..Len(show.tried) |-> show.tried[i].err]
           = <<"errDownload", "errDownload", "errDownload", "errDownload", "nil", "other">>
    /\ show.n = 1

\* ------------------------------------------------------------ C39
\* C39: an attempt that fails with ENOSPC is the last attempt of the run:
\* Sync has returned, with the count of the episodes synced until then and
\* an error, and no later episode is attempted.
C39_NoSpaceStops ==
    Downloading =>
        \A i \in 1..Len(show.tried) :
            show.tried[i].err = "ENOSPC" =>
                /\ i = Len(show.tried)
                /\ show.pc = "returned"
                /\ show.err # "nil"
                /\ show.n = Cardinality(Synced)
                /\ show.index = PosIn(show.Episodes, show.tried[i].ep)

\* The disk ran full at the second attempt on the second of three episodes,
\* after the first one was synced: Sync returned 1 and an error, the third
\* episode was not attempted.
C39_Witness ==
    /\ show.active /\ show.pc = "returned" /\ show.err # "nil"
    /\ Len(show.Episodes) = 3
    /\ [i \in 1..Len(show.tried) |-> show.tried[i].err] = <<"nil", "errDownload", "ENOSPC">>
    /\ show.n = 1
    /\ AttemptsOn(show.Episodes[3].Title) = {}

\* ------------------------------------------------------------ Show.filter
\* What filepath.Walk hands to walkFunc: an error of its own, a hidden file,
\* a file that is no audio file, one that cannot be opened, an audio file.
WalkKinds == {"walkErr", "hidden", "nonAudio", "openErr", "audio"}

\* walkFunc is called for one file of the show's directory; stream is the
\* file's content, and before is DebugMode at the call.
InitFilter ==
    /\ stream \in Streams
    /\ supplied = 0
    /\ consumed = 0
    /\ ret = [op |-> "none", n |-> 0, err |-> "nil"]
    /\ buffer = NewMeta.buffer
    /\ alloc = NewMeta.alloc
    /\ buffered = NewMeta.buffered
    /\ noMeta = NewMeta.noMeta
    /\ readFrames = NewMeta.readFrames
    /\ frames = NewMeta.frames
    /\ parses = 0
    /\ noTag = FALSE
    /\ sets = 0
    /\ crashed = FALSE
    /\ ep = NoEpisode
    /\ sink = <<>>
    /\ copy = "run"
    /\ last = NoCall
    /\ show = NoShow
    /\ DebugMode \in BOOLEAN
    /\ \E kind \in WalkKinds :
           walk = [active |-> TRUE, pc |-> "start", kind |-> kind, before |-> DebugMode,
                   tmpDebug |-> FALSE, err |-> "nil", have |-> {}]

\* walkFunc up to io.Copy: the early returns, then DebugMode is saved and
\* switched off and the Meta is made.
WalkEnter ==
    /\ walk.active
    /\ walk.pc = "start"
    /\ IF walk.kind \in {"walkErr", "openErr"}
       THEN /\ walk' = [walk EXCEPT !.pc = "returned", !.err = walk.kind]
            /\ UNCHANGED <<metaVars, DebugMode>>
       ELSE IF walk.kind \in {"hidden", "nonAudio"}
       THEN /\ walk' = [walk EXCEPT !.pc = "returned"]
            /\ UNCHANGED <<metaVars, DebugMode>>
       ELSE /\ walk' = [walk EXCEPT !.pc = "copy", !.tmpDebug = DebugMode]
            /\ DebugMode' = FALSE
            /\ Store(NewMeta)
    /\ UNCHANGED <<drvVars, epVars, crashed, last, show>>

\* One pass of the loop of io.Copy(meta, file): meta.Write is called with the
\* next k bytes of the file.  An error of Write ends the copy with that
\* error, a count below k with io.ErrShortWrite; io.EOF counts as success for
\* walkFunc, which then restores DebugMode, and any other error makes it
\* return at once.
WalkCopy(k) ==
    /\ ~crashed
    /\ walk.active
    /\ walk.pc = "copy"
    /\ k \in ChunkLens
    /\ \E r \in {Write(M, Chunk(k))} :
           IF r.m.panic THEN Crash
           ELSE /\ Store(r.m)
                /\ supplied' = supplied + k
                /\ consumed' = consumed + r.n
                /\ ret' = [op |-> "Write", n |-> r.n, err |-> r.err]
                /\ noTag' = (noTag \/ r.notag)
                /\ IF r.err = "EOF"
                   THEN /\ walk' = [walk EXCEPT !.pc = "title"]
                        /\ DebugMode' = walk.tmpDebug
                   ELSE IF r.err # "nil" \/ r.n # k
                   THEN /\ walk' = [walk EXCEPT !.pc = "returned",
                                    !.err = IF r.err # "nil" THEN r.err ELSE "short write"]
                        /\ UNCHANGED DebugMode
                   ELSE UNCHANGED <<walk, DebugMode>>
                /\ UNCHANGED <<stream, sets, epVars, crashed, last, show>>

\* The file is at its end: io.Copy returns nil and DebugMode is restored.
WalkEnd ==
    /\ ~crashed
    /\ walk.active
    /\ walk.pc = "copy"
    /\ supplied = Len(stream)
    /\ walk' = [walk EXCEPT !.pc = "title"]
    /\ DebugMode' = walk.tmpDebug
    /\ UNCHANGED <<metaVars, drvVars, epVars, crashed, last, show>>

\* Reading the file fails: io.Copy returns the error of the read, and
\* walkFunc returns it.
WalkReadErr ==
    /\ ~crashed
    /\ walk.active
    /\ walk.pc = "copy"
    /\ walk' = [walk EXCEPT !.pc = "returned", !.err = "read"]
    /\ UNCHANGED <<metaVars, drvVars, epVars, crashed, last, show, DebugMode>>

\* The title of the file is looked up with getFirstValue and entered in
\* have; walkFunc returns nil.
WalkTitle ==
    /\ ~crashed
    /\ walk.active
    /\ walk.pc = "title"
    /\ \E r \in { GetValues(M, id) : id \in {IF Version(M) = 2 THEN TT2 ELSE TIT2} } :
           IF r.m.panic THEN Crash
           ELSE /\ Store(r.m)
                /\ walk' = [walk EXCEPT !.pc = "returned",
                                        !.have = @ \cup {IF r.out = <<>> THEN <<>> ELSE r.out[1]}]
                /\ UNCHANGED <<drvVars, epVars, crashed, last, show, DebugMode>>

NextFilter ==
    \/ WalkEnter
    \/ \E k \in 1..(MaxChunk + Len(stream)) : WalkCopy(k)
    \/ WalkEnd
    \/ WalkReadErr
    \/ WalkTitle

SpecFilter == InitFilter /\ [][NextFilter]_vars

\* ------------------------------------------------------------ C40
\* C40 as claimed: whenever walkFunc has returned, on whichever path,
\* DebugMode has the value it had when walkFunc was called for the file.
C40_DebugModeRestored ==
    (walk.active /\ walk.pc = "returned") => DebugMode = walk.before

====
